---- MODULE Spec2Model ----
(***************************************************************************)
(* AgentHAB: the generate / validate / retry loop of main.py               *)
(* (run_generation_loop) with the collaborators it drives: PromptBuilder   *)
(* (tools/prompt_builder.py), PolicyGeneratorAgent, ValidatorAgent and     *)
(* ContextValidatorAgent (agents/), and RuleParser (tools/rule_parser.py). *)
(*                                                                         *)
(* Spec is the loop. BuilderSpec, ParserSpec and ValidatorSpec are the     *)
(* PromptBuilder, the RuleParser and the two validators taken on their     *)
(* own, called with arguments drawn from small sets; they use the          *)
(* variables of the loop that hold what they work on. FormatSpec is the    *)
(* context validator's rendering of a snapshot, FetchSpec the fetching of  *)
(* a snapshot (tools/context_fetcher.py). CallerSpec is a caller that      *)
(* fetches and then runs the loop (main, agent_pipeline/), MainSpec is     *)
(* main with what it does after the loop: saving and deploying.            *)
(*                                                                         *)
(* Python strings are sequences of one-character strings, so that strip(), *)
(* lower(), startswith(), join(), replace() and the regular expressions    *)
(* are computed as Python computes them.                                   *)
(***************************************************************************)
EXTENDS Integers, Sequences, FiniteSets, Bags, TLC

VARIABLES
    request,            \* argument request (prompt_builder.request)
    max_attempts,       \* argument max_attempts
    system_context,     \* argument system_context (None or a snapshot)
    generator,          \* the class bound to the name PolicyGeneratorAgent
    pc,                 \* position in run_generation_loop
    attempt,            \* the loop variable of main.py:98 (0: not yet bound)
    documents,          \* prompt_builder.documents
    feedback_history,   \* prompt_builder.feedback_history
    last_candidate,     \* prompt_builder.last_candidate
    generation,         \* local generation
    validation,         \* local validation
    context_validation, \* local context_validation
    last_generation,    \* local last_generation
    last_validation,    \* local last_validation
    result,             \* the returned tuple, None until the return
    error,              \* the exception that left the function, None if none
    calls,              \* history: the calls made to the collaborators, in order
    produced            \* history: the code of each generation, in order

vars == <<request, max_attempts, system_context, generator, pc, attempt, documents,
          feedback_history, last_candidate, generation, validation,
          context_validation, last_generation, last_validation, result, error,
          calls, produced>>

\* Python's None, for the variables that hold objects.
None == [none |-> TRUE]

\* Python's None, for the variables that hold strings (no string has an element
\* that is longer than one character).
NoStr == <<"None">>

\* No exception has left the function.
NoError == "none"

\* ------------------------------------------------------------------ bounds

\* The largest max_attempts explored.
MaxAttempts == 3

\* ----------------------------------------------------------------- strings

Whitespace == {" ", "\n", "\t"}

RECURSIVE LStrip(_)
LStrip(s) == IF s # <<>> /\ Head(s) \in Whitespace THEN LStrip(Tail(s)) ELSE s

RECURSIVE RStrip(_)
RStrip(s) ==
    IF s # <<>> /\ s[Len(s)] \in Whitespace
    THEN RStrip(SubSeq(s, 1, Len(s) - 1))
    ELSE s

\* str.strip()
Strip(s) == RStrip(LStrip(s))

UpperLetters ==
    <<"A", "B", "C", "D", "E", "F", "G", "H", "I", "J", "K", "L", "M", "N",
      "O", "P", "Q", "R", "S", "T", "U", "V", "W", "X", "Y", "Z">>

LowerLetters ==
    <<"a", "b", "c", "d", "e", "f", "g", "h", "i", "j", "k", "l", "m", "n",
      "o", "p", "q", "r", "s", "t", "u", "v", "w", "x", "y", "z">>

Digits == <<"0", "1", "2", "3", "4", "5", "6", "7", "8", "9">>

\* The characters \w matches, on ASCII text.
WordChars ==
    {UpperLetters[i] : i \in 1..26} \cup {LowerLetters[i] : i \in 1..26}
    \cup {Digits[i] : i \in 1..10} \cup {"_"}

UpperToLower ==
    [c \in {UpperLetters[i] : i \in 1..26} |->
        LowerLetters[CHOOSE i \in 1..26 : UpperLetters[i] = c]]

\* str.lower()
Lower(s) ==
    [i \in 1..Len(s) |->
        IF s[i] \in DOMAIN UpperToLower THEN UpperToLower[s[i]] ELSE s[i]]

RECURSIVE IntToStr(_)
\* str(n), n a natural number
IntToStr(n) ==
    IF n < 10 THEN <<Digits[n + 1]>>
    ELSE IntToStr(n \div 10) \o <<Digits[(n % 10) + 1]>>

\* str.startswith(prefix)
StartsWith(s, prefix) ==
    Len(s) >= Len(prefix) /\ SubSeq(s, 1, Len(prefix)) = prefix

RECURSIVE Join(_, _)
\* sep.join(lines)
Join(lines, sep) ==
    IF lines = <<>> THEN <<>>
    ELSE IF Len(lines) = 1 THEN lines[1]
    ELSE lines[1] \o sep \o Join(Tail(lines), sep)

S_valid == <<"v", "a", "l", "i", "d">>
S_invalid == <<"i", "n", "v", "a", "l", "i", "d">>
S_ok == <<"o", "k">>
S_bad == <<"b", "a", "d">>
S_why == <<"w", "h", "y">>
S_fix == <<"f", "i", "x">>
S_noparse ==
    <<"V", "a", "l", "i", "d", "a", "t", "o", "r", " ", "c", "o", "u", "l",
      "d", " ", "n", "o", "t", " ", "p", "a", "r", "s", "e", " ", "r", "e",
      "s", "p", "o", "n", "s", "e", ".">>
S_context_noparse ==
    <<"C", "o", "n", "t", "e", "x", "t", " ", "v", "a", "l", "i", "d", "a",
      "t", "o", "r", " ", "c", "o", "u", "l", "d", " ", "n", "o", "t", " ",
      "p", "a", "r", "s", "e", " ", "r", "e", "s", "p", "o", "n", "s", "e",
      ".">>
S_SuggestedFixes ==
    <<"S", "u", "g", "g", "e", "s", "t", "e", "d", " ", "f", "i", "x", "e", "s", ":">>
S_Warnings == <<"W", "a", "r", "n", "i", "n", "g", "s", ":">>
S_Bullet == <<" ", " ", "-", " ">>
NL == <<"\n">>

\* ---------------------------------------------------- verdicts (agents/)

\* dict.get(key, default)
Get(d, key, default) == IF key \in DOMAIN d THEN d[key] ELSE default

\* ValidatorAgent.validate, from the decoded response on
ValidationResultOf(parsed) ==
    [verdict  |-> Get(parsed, "verdict", S_invalid),
     summary  |-> Get(parsed, "summary", S_noparse),
     feedback |-> Get(parsed, "feedback", <<>>),
     fixes    |-> Get(parsed, "fixes", <<>>)]

\* ContextValidatorAgent.validate, from the decoded response on
ContextValidationResultOf(parsed) ==
    [verdict  |-> Get(parsed, "verdict", S_invalid),
     summary  |-> Get(parsed, "summary", S_context_noparse),
     feedback |-> Get(parsed, "feedback", <<>>),
     fixes    |-> Get(parsed, "fixes", <<>>),
     warnings |-> Get(parsed, "warnings", <<>>)]

\* ValidationResult.is_valid and ContextValidationResult.is_valid
is_valid(v) == StartsWith(Lower(v.verdict), S_valid)

\* ValidationResult.as_feedback_entry
as_feedback_entry(v) ==
    IF is_valid(v) THEN v.summary
    ELSE Join(<<v.summary>>
              \o (IF v.feedback # <<>> THEN <<v.feedback>> ELSE <<>>)
              \o v.fixes,
              NL)

\* ContextValidationResult.as_feedback_entry
context_as_feedback_entry(v) ==
    IF is_valid(v)
    THEN IF v.warnings # <<>>
         THEN v.summary \o NL \o S_Warnings \o NL
              \o Join([i \in 1..Len(v.warnings) |-> S_Bullet \o v.warnings[i]], NL)
         ELSE v.summary
    ELSE Join(<<v.summary>>
              \o (IF v.feedback # <<>> THEN <<v.feedback>> ELSE <<>>)
              \o (IF v.fixes # <<>>
                  THEN <<S_SuggestedFixes>>
                       \o [i \in 1..Len(v.fixes) |-> S_Bullet \o v.fixes[i]]
                  ELSE <<>>),
              NL)

\* ------------------------------------------ the collaborators' responses

\* Decoded JSON objects the syntax validator's service call can come back with.
SyntaxResponses ==
    { [verdict |-> S_valid, summary |-> S_ok, feedback |-> <<>>, fixes |-> <<>>],
      [verdict |-> S_invalid, summary |-> S_bad, feedback |-> S_why, fixes |-> <<S_fix>>],
      [verdict |-> S_invalid, summary |-> <<>>, feedback |-> <<" ">>],
      [summary |-> S_bad] }

\* Decoded JSON objects the context validator's service call can come back with.
ContextResponses ==
    { [verdict |-> S_valid, summary |-> S_ok, feedback |-> <<>>, fixes |-> <<>>,
       warnings |-> <<S_why>>],
      [verdict |-> S_invalid, summary |-> S_bad, feedback |-> S_why, fixes |-> <<S_fix>>,
       warnings |-> <<>>],
      [verdict |-> S_invalid, summary |-> <<" ">>] }

\* A generated text of two rules, with whitespace around it.
S_TwoRules ==
    <<" ", "r", "u", "l", "e", " ", "\"", "L", "a", "m", "p", " ", "o", "n",
      "\"", "\n", "w", "h", "e", "n", "\n", " ", " ", " ", " ", "I", "t",
      "e", "m", " ", "M", "o", "t", "i", "o", "n", "_", "S", "e", "n", "s",
      "o", "r", " ", "c", "h", "a", "n", "g", "e", "d", "\n", "t", "h", "e",
      "n", "\n", " ", " ", " ", " ", "L", "i", "g", "h", "t", ".", "s", "e",
      "n", "d", "C", "o", "m", "m", "a", "n", "d", "(", "O", "N", ")", "\n",
      "e", "n", "d", "\n", "\n", "r", "u", "l", "e", " ", "\"", "L", "a",
      "m", "p", " ", "o", "f", "f", "\"", "\n", "w", "h", "e", "n", "\n",
      " ", " ", " ", " ", "I", "t", "e", "m", " ", "l", "a", "m", "p", " ",
      "r", "e", "c", "e", "i", "v", "e", "d", " ", "c", "o", "m", "m", "a",
      "n", "d", "\n", "t", "h", "e", "n", "\n", " ", " ", " ", " ", "s", "e",
      "n", "d", "C", "o", "m", "m", "a", "n", "d", "(", "3", "d", "_", "L",
      "i", "g", "h", "t", ",", " ", "O", "N", ")", "\n", "e", "n", "d", "\n">>

\* Texts the generation service can answer with (result["output"]).
GeneratorOutputs == { <<>>, S_TwoRules }

\* The requests a caller passes.
Requests == { <<" ", "o", "n", "\n">> }

\* What retriever.invoke(request) can return: Documents with their page_content
\* and metadata.
RetrievedDocuments ==
    { <<>>,
      <<[page_content |-> <<" ", "d", "\n">>,
         metadata |-> [source |-> <<"k", "/", "a", ".", "m", "d">>]]>> }

\* The snapshots a caller can pass as system_context: items with name and type
\* (None where openHAB reports none), rules with their names.
SystemContexts ==
    { [items |-> << [name |-> <<"L", "b">>, type |-> <<"S">>],
                    [name |-> <<"T">>, type |-> NoStr],
                    [name |-> <<"L", "a">>, type |-> <<"S">>] >>,
       things |-> <<>>,
       live_rules |-> << [name |-> <<"r", "1">>] >>,
       local_rules |-> << [name |-> <<"r", "2">>] >>] }

\* ------------------------------------------------------- PromptBuilder

\* The keys of the dict PromptBuilder.generator_variables returns.
GeneratorVariablesKeys == {"request", "context", "feedback", "prior_code"}

\* The keys of the dict PromptBuilder.validator_variables returns.
ValidatorVariablesKeys ==
    (GeneratorVariablesKeys \ {"prior_code"}) \cup {"candidate_code"}

add_feedback_unchecked(history, source, message) ==
    Append(history, [source |-> source, message |-> message])

add_feedback_untrimmed(history, source, message) ==
    IF message = NoStr \/ Strip(message) = <<>> THEN history
    ELSE Append(history, [source |-> source, message |-> message])

\* PromptBuilder.add_feedback: the history after the call.
add_feedback(history, source, message) ==
    LET normalized == Strip(IF message = NoStr THEN <<>> ELSE message)
    IN IF normalized = <<>> THEN history
       ELSE Append(history, [source |-> source, message |-> normalized])

record_candidate_not_recorded(candidate_code) == NoStr

\* PromptBuilder.record_candidate: the new last_candidate.
record_candidate(candidate_code) == Strip(candidate_code)

S_NoDocuments ==
    <<"N", "o", " ", "s", "u", "p", "p", "l", "e", "m", "e", "n", "t", "a",
      "l", " ", "d", "o", "c", "u", "m", "e", "n", "t", "a", "t", "i", "o",
      "n", " ", "r", "e", "t", "r", "i", "e", "v", "e", "d", ".">>
S_NoFeedback == <<"N", "o", "n", "e", ".">>
S_NoPriorCode ==
    <<"N", "o", "n", "e", ".", " ", "P", "r", "o", "d", "u", "c", "e", " ",
      "a", " ", "f", "r", "e", "s", "h", ",", " ", "f", "u", "l", "l", "y",
      "-", "s", "p", "e", "c", "i", "f", "i", "e", "d", " ", "r", "u", "l",
      "e", ".">>
S_LiveSystemContext ==
    <<"=", "=", "=", " ", "L", "I", "V", "E", " ", "S", "Y", "S", "T", "E",
      "M", " ", "C", "O", "N", "T", "E", "X", "T", " ", "=", "=", "=">>
S_AvailableItems ==
    <<"\n", "A", "v", "a", "i", "l", "a", "b", "l", "e", " ", "I", "t", "e",
      "m", "s", " ", "(">>
S_Unknown == <<"U", "n", "k", "n", "o", "w", "n">>
S_ExistingRules ==
    <<"\n", "E", "x", "i", "s", "t", "i", "n", "g", " ", "R", "u", "l", "e",
      "s", " ", "(">>
S_Total == <<" ", "t", "o", "t", "a", "l", ")", ":">>
S_Important ==
    <<" ", " ", "I", "M", "P", "O", "R", "T", "A", "N", "T", ":", " ", "Y",
      "o", "u", "r", " ", "g", "e", "n", "e", "r", "a", "t", "e", "d", " ",
      "r", "u", "l", "e", " ", "m", "u", "s", "t", " ", "n", "o", "t", " ",
      "c", "o", "n", "f", "l", "i", "c", "t", " ", "w", "i", "t", "h", " ",
      "t", "h", "e", "s", "e", " ", "e", "x", "i", "s", "t", "i", "n", "g",
      " ", "r", "u", "l", "e", "s", ".">>
S_RuleNames ==
    <<" ", " ", "R", "u", "l", "e", " ", "n", "a", "m", "e", "s", ":", " ">>
S_AndMore_1 == <<" ", " ", ".", ".", ".", " ", "a", "n", "d", " ">>
S_AndMore_2 == <<" ", "m", "o", "r", "e">>

\* The characters of the names, in the order of their code points.
CodePoints ==
    <<" ", "0", "1", "2", "3", "4", "5", "6", "7", "8", "9", "A", "B", "C",
      "D", "E", "F", "G", "H", "I", "J", "K", "L", "M", "N", "O", "P", "Q",
      "R", "S", "T", "U", "V", "W", "X", "Y", "Z", "_", "a", "b", "c", "d",
      "e", "f", "g", "h", "i", "j", "k", "l", "m", "n", "o", "p", "q", "r",
      "s", "t", "u", "v", "w", "x", "y", "z">>

Ord(c) == CHOOSE i \in 1..Len(CodePoints) : CodePoints[i] = c

RECURSIVE StrLess(_, _)
\* a < b on Python strings
StrLess(a, b) ==
    IF b = <<>> THEN FALSE
    ELSE IF a = <<>> THEN TRUE
    ELSE IF Head(a) = Head(b) THEN StrLess(Tail(a), Tail(b))
    ELSE Ord(Head(a)) < Ord(Head(b))

\* sorted(names)
Sorted(names) == SortSeq(names, StrLess)

RECURSIVE SortedTypes(_)
\* sorted(items_by_type.items()): the keys, which are distinct, in order
SortedTypes(types) ==
    IF types = {} THEN <<>>
    ELSE LET least == CHOOSE t \in types : \A u \in types \ {t} : StrLess(t, u)
         IN <<least>> \o SortedTypes(types \ {least})

Min(a, b) == IF a < b THEN a ELSE b

RECURSIVE SelectNames(_, _)
\* [item.name for item in items if (item.type or "Unknown") == item_type]
SelectNames(items, item_type) ==
    IF items = <<>> THEN <<>>
    ELSE (IF (IF Head(items).type \in {NoStr, <<>>} THEN S_Unknown
              ELSE Head(items).type) = item_type
          THEN <<Head(items).name>> ELSE <<>>)
         \o SelectNames(Tail(items), item_type)

RECURSIVE LastSlash(_)
LastSlash(path) ==
    IF path = <<>> \/ path[Len(path)] = "/" THEN Len(path)
    ELSE LastSlash(SubSeq(path, 1, Len(path) - 1))

\* os.path.basename(path)
Basename(path) == SubSeq(path, LastSlash(path) + 1, Len(path))

\* SystemContext.all_rule_names
all_rule_names(sc) ==
    LET named(rules) == SelectSeq(rules, LAMBDA r : r.name \notin {NoStr, <<>>})
        names(rules) == [i \in 1..Len(rules) |-> rules[i].name]
    IN names(named(sc.live_rules)) \o names(named(sc.local_rules))

\* PromptBuilder._format_documents
format_documents(docs) ==
    IF docs = <<>> THEN S_NoDocuments
    ELSE LET source(doc) == Get(doc.metadata, "source", NoStr)
             label(idx) ==
                 <<"[">> \o IntToStr(idx) \o <<"]">>
                 \o (IF source(docs[idx]) \notin {NoStr, <<>>}
                     THEN <<" ">> \o Basename(source(docs[idx])) ELSE <<>>)
         IN Join([idx \in 1..Len(docs) |->
                     label(idx) \o NL \o Strip(docs[idx].page_content)],
                 NL \o NL)

format_feedback_from_zero(history) ==
    IF history = <<>> THEN S_NoFeedback
    ELSE Join([idx \in 1..Len(history) |->
                  IntToStr(idx - 1) \o <<".", " ", "(">> \o history[idx].source
                  \o <<")", " ">> \o history[idx].message],
              NL)

\* PromptBuilder._format_feedback
format_feedback(history) ==
    IF history = <<>> THEN S_NoFeedback
    ELSE Join([idx \in 1..Len(history) |->
                  IntToStr(idx) \o <<".", " ", "(">> \o history[idx].source
                  \o <<")", " ">> \o history[idx].message],
              NL)

\* PromptBuilder._format_prior_code
format_prior_code(last) ==
    IF last \in {NoStr, <<>>} THEN S_NoPriorCode ELSE last

\* PromptBuilder._format_system_context
format_system_context(sc) ==
    IF sc = None THEN <<>>
    ELSE LET item_type(i) ==
                 IF sc.items[i].type \in {NoStr, <<>>} THEN S_Unknown
                 ELSE sc.items[i].type
             types == SortedTypes({item_type(i) : i \in 1..Len(sc.items)})
             item_lines ==
                 IF sc.items = <<>> THEN <<>>
                 ELSE <<S_AvailableItems \o IntToStr(Len(sc.items)) \o <<")", ":">> >>
                      \o [t \in 1..Len(types) |->
                            <<" ", " ">> \o types[t] \o <<":", " ">>
                            \o Join(Sorted(SelectNames(sc.items, types[t])),
                                    <<",", " ">>)]
             total_rules == Len(sc.live_rules) + Len(sc.local_rules)
             all_names == all_rule_names(sc)
             rule_lines ==
                 IF total_rules > 0
                 THEN <<S_ExistingRules \o IntToStr(total_rules) \o S_Total,
                        S_Important>>
                      \o (IF all_names # <<>>
                          THEN << S_RuleNames
                                  \o Join(SubSeq(all_names, 1, Min(15, Len(all_names))),
                                          <<",", " ">>) >>
                               \o (IF Len(all_names) > 15
                                   THEN << S_AndMore_1
                                           \o IntToStr(Len(all_names) - 15)
                                           \o S_AndMore_2 >>
                                   ELSE <<>>)
                          ELSE <<>>)
                 ELSE <<>>
         IN Join(<<S_LiveSystemContext>> \o item_lines \o rule_lines, NL)

\* PromptBuilder.generator_variables
generator_variables(req, docs, history, last, sc) ==
    ("request" :> Strip(req))
    @@ ("context" :> IF sc # None
                     THEN format_documents(docs) \o NL \o NL
                          \o format_system_context(sc)
                     ELSE format_documents(docs))
    @@ ("feedback" :> format_feedback(history))
    @@ ("prior_code" :> format_prior_code(last))

validator_variables_keeps_prior_code(req, docs, history, last, sc, candidate_code) ==
    generator_variables(req, docs, history, last, sc)
    @@ ("candidate_code" :> Strip(candidate_code))

\* PromptBuilder.validator_variables
validator_variables(req, docs, history, last, sc, candidate_code) ==
    LET base == generator_variables(req, docs, history, last, sc)
        popped == [k \in DOMAIN base \ {"prior_code"} |-> base[k]]
    IN ("candidate_code" :> Strip(candidate_code)) @@ popped

\* f"{stage} attempt {attempt}"
FeedbackSource(stage, n) == [stage |-> stage, attempt |-> n]

\* ---------------------------------------------------- keyword binding

\* The keyword-only parameters of PolicyGeneratorAgent.generate.
PolicyGeneratorParams == {"request", "context", "feedback"}

\* The keywords the callers of generate pass (run_baseline.py spells them out).
CallerKeywords == {"request", "context", "feedback", "prior_code"}

\* The generators the loop is run with. main.py:92 looks the class up by name at
\* call time: the shipped PolicyGeneratorAgent, whose generate rejects the
\* prior_code keyword that main.py:100 passes, and a generator whose generate takes
\* the keywords both call sites pass. Only with the latter does a run get past
\* main.py:100.
Generators == {"PolicyGeneratorAgent", "PriorCodeGenerator"}

GenerateParams(g) ==
    IF g = "PolicyGeneratorAgent" THEN PolicyGeneratorParams ELSE CallerKeywords

\* The keyword-only parameters of ValidatorAgent.validate.
ValidateParams == {"request", "context", "feedback", "candidate_code"}

\* Python binds f(**kwargs) to keyword-only parameters without defaults iff the
\* keys are exactly the parameters; otherwise the call raises TypeError.
Binds(params, keys) == keys = params

\* ------------------------------------------- run_generation_loop (main.py)

\* main.py:94, context_validator = ContextValidatorAgent() if system_context else None
ContextValidatorConfigured(sc) == sc # None

RunsContextValidation_never(sc) == FALSE

\* main.py:119, if context_validator and system_context
RunsContextValidation(sc) == ContextValidatorConfigured(sc) /\ sc # None

HasNextAttempt_inclusive(n, max) == n <= max

\* main.py:98, for attempt in range(1, max_attempts + 1): is there a next value?
HasNextAttempt(n, max) == n < max

SyntaxRejected_never(v) == FALSE

\* main.py:108, if not validation.is_valid
SyntaxRejected(v) == ~is_valid(v)

\* main.py:127, if not context_validation.is_valid
ContextRejected(cv) == ~is_valid(cv)

RecordLastGeneration_first(previous, current) ==
    IF previous = None THEN current ELSE previous

\* main.py:106, last_generation = generation
RecordLastGeneration(previous, current) == current

LastValidationAfterContextFailure_kept(previous) == previous

\* main.py:134, last_validation = None
LastValidationAfterContextFailure(previous) == None

NoAttemptProduced_never(lg, lv) == FALSE

\* main.py:144, if last_generation is None or last_validation is None
NoAttemptProduced(lg, lv) == lg = None \/ lv = None

SuccessAttemptsUsed_zero_based(n) == n - 1

\* main.py:142, the attempts_used of a successful return
SuccessAttemptsUsed(n) == n

\* main.py:153, the attempts_used of an exhausted return
ExhaustedAttemptsUsed(n, max) == max

\* An entry of the history of calls: the collaborator called, the attempt it was
\* called in, how the call ended and, for a verdict, the text it gives as feedback.
Event(op, outcome, text) ==
    [op |-> op, attempt |-> attempt, outcome |-> outcome, text |-> text]

Call(op, outcome) == Event(op, outcome, <<>>)

Init ==
    /\ request \in Requests
    /\ max_attempts \in -1..MaxAttempts
    /\ system_context \in SystemContexts \cup {None}
    /\ generator \in Generators
    /\ pc = "retrieve"
    /\ attempt = 0
    /\ documents = <<>>
    /\ feedback_history = <<>>
    /\ last_candidate = NoStr
    /\ generation = None
    /\ validation = None
    /\ context_validation = None
    /\ last_generation = None
    /\ last_validation = None
    /\ result = None
    /\ error = NoError
    /\ calls = <<>>
    /\ produced = <<>>

set_system_context_without_rules(context) ==
    [context EXCEPT !.live_rules = <<>>, !.local_rules = <<>>]

\* PromptBuilder.set_system_context: the builder keeps the caller's object itself,
\* so what the builder holds after the call is what the loop holds.
set_system_context(context) == context

\* The for statement of main.py:98 taking its next value, or ending.
ForNext ==
    IF HasNextAttempt(attempt, max_attempts)
    THEN attempt' = attempt + 1 /\ pc' = "generate"
    ELSE attempt' = attempt /\ pc' = "after_loop"

ServiceFailure_swallowed(op) ==
    /\ calls' = Append(calls, Call(op, "raised"))
    /\ ForNext
    /\ UNCHANGED <<request, max_attempts, system_context, generator, documents,
                   feedback_history, last_candidate, generation, validation,
                   context_validation, last_generation, last_validation, result,
                   error, produced>>

\* A call to an external service raises; nothing in run_generation_loop catches it.
ServiceFailure(op) ==
    /\ calls' = Append(calls, Call(op, "raised"))
    /\ pc' = "raised"
    /\ error' = "ServiceError"
    /\ UNCHANGED <<request, max_attempts, system_context, generator, attempt, documents,
                   feedback_history, last_candidate, generation, validation,
                   context_validation, last_generation, last_validation, result,
                   produced>>

\* main.py:142, return generation, validation, True, attempt
ReturnSuccess(v) ==
    /\ result' = [generation |-> generation, validation |-> v,
                  is_valid |-> TRUE, attempts_used |-> SuccessAttemptsUsed(attempt)]
    /\ pc' = "returned"
    /\ UNCHANGED <<attempt, error>>

\* main.py:85-97, up to the loop
Retrieve ==
    /\ pc = "retrieve"
    /\ \E docs \in RetrievedDocuments :
          /\ documents' = docs
          /\ calls' = Append(calls, Call("retrieve", "ok"))
    /\ system_context' = IF system_context # None
                         THEN set_system_context(system_context)
                         ELSE system_context
    /\ ForNext
    /\ UNCHANGED <<request, max_attempts, generator, feedback_history,
                   last_candidate, generation, validation, context_validation,
                   last_generation, last_validation, result, error, produced>>

\* main.py:85, retriever.invoke raises
RetrieveFails == pc = "retrieve" /\ ServiceFailure("retrieve")

\* main.py:100-101, generate and record_candidate
Generate ==
    /\ pc = "generate"
    /\ Binds(GenerateParams(generator), GeneratorVariablesKeys)
    /\ \E output \in GeneratorOutputs :
          LET code == Strip(output)
          IN /\ generation' = [openhab_code |-> code, reasoning |-> NoStr]
             /\ last_candidate' = record_candidate(code)
             /\ produced' = Append(produced, code)
    /\ calls' = Append(calls, Call("generate", "ok"))
    /\ pc' = "syntax"
    /\ UNCHANGED <<request, max_attempts, system_context, generator, attempt, documents,
                   feedback_history, validation, context_validation,
                   last_generation, last_validation, result, error>>

\* main.py:100, the keywords of generator_variables() do not bind
GenerateTypeError ==
    /\ pc = "generate"
    /\ ~Binds(GenerateParams(generator), GeneratorVariablesKeys)
    /\ calls' = Append(calls, Call("generate", "TypeError"))
    /\ pc' = "raised"
    /\ error' = "TypeError"
    /\ UNCHANGED <<request, max_attempts, system_context, generator, attempt, documents,
                   feedback_history, last_candidate, generation, validation,
                   context_validation, last_generation, last_validation, result,
                   produced>>

\* policy_generator.py:59, executor.invoke raises
GenerateFails ==
    /\ pc = "generate"
    /\ Binds(GenerateParams(generator), GeneratorVariablesKeys)
    /\ ServiceFailure("generate")

\* main.py:105-116 and, without a context validator, main.py:142
SyntaxValidate ==
    /\ pc = "syntax"
    /\ Binds(ValidateParams, ValidatorVariablesKeys)
    /\ \E parsed \in SyntaxResponses :
          LET v == ValidationResultOf(parsed)
          IN /\ validation' = v
             /\ calls' = Append(calls,
                    Event("syntax", IF is_valid(v) THEN "valid" ELSE "invalid",
                          as_feedback_entry(v)))
             /\ last_generation' = RecordLastGeneration(last_generation, generation)
             /\ IF SyntaxRejected(v)
                THEN /\ last_validation' = v
                     /\ feedback_history' =
                            add_feedback(feedback_history,
                                         FeedbackSource("syntax_validator", attempt),
                                         as_feedback_entry(v))
                     /\ ForNext
                     /\ UNCHANGED <<result, error>>
                ELSE IF RunsContextValidation(system_context)
                THEN /\ pc' = "context"
                     /\ UNCHANGED <<attempt, last_validation, feedback_history,
                                    result, error>>
                ELSE /\ ReturnSuccess(v)
                     /\ UNCHANGED <<last_validation, feedback_history>>
    /\ UNCHANGED <<request, max_attempts, system_context, generator, documents,
                   last_candidate, generation, context_validation, produced>>

\* validator_agent.py:92, llm.invoke raises
SyntaxValidateFails == pc = "syntax" /\ ServiceFailure("syntax")

\* validator_agent.py:94-96, the response decodes to JSON that is no object (a
\* list, a number, null): parsed.get raises AttributeError, which nothing catches.
SyntaxValidateRaises ==
    /\ pc = "syntax"
    /\ Binds(ValidateParams, ValidatorVariablesKeys)
    /\ calls' = Append(calls, Call("syntax", "AttributeError"))
    /\ pc' = "raised"
    /\ error' = "AttributeError"
    /\ UNCHANGED <<request, max_attempts, system_context, generator, attempt, documents,
                   feedback_history, last_candidate, generation, validation,
                   context_validation, last_generation, last_validation, result,
                   produced>>

\* main.py:119-142
ContextValidate ==
    /\ pc = "context"
    /\ \E parsed \in ContextResponses :
          LET cv == ContextValidationResultOf(parsed)
          IN /\ context_validation' = cv
             /\ calls' = Append(calls,
                    Event("context", IF is_valid(cv) THEN "valid" ELSE "invalid",
                          context_as_feedback_entry(cv)))
             /\ IF ContextRejected(cv)
                THEN /\ feedback_history' =
                            add_feedback(feedback_history,
                                         FeedbackSource("context_validator", attempt),
                                         context_as_feedback_entry(cv))
                     /\ last_validation' = LastValidationAfterContextFailure(last_validation)
                     /\ ForNext
                     /\ UNCHANGED <<result, error>>
                ELSE /\ ReturnSuccess(validation)
                     /\ UNCHANGED <<last_validation, feedback_history>>
    /\ UNCHANGED <<request, max_attempts, system_context, generator, documents,
                   last_candidate, generation, validation, last_generation,
                   produced>>

\* context_validator.py:137, llm.invoke raises
ContextValidateFails == pc = "context" /\ ServiceFailure("context")

\* context_validator.py:141-144, the response decodes to JSON that is no object:
\* parsed.get raises AttributeError, which nothing catches.
ContextValidateRaises ==
    /\ pc = "context"
    /\ calls' = Append(calls, Call("context", "AttributeError"))
    /\ pc' = "raised"
    /\ error' = "AttributeError"
    /\ UNCHANGED <<request, max_attempts, system_context, generator, attempt, documents,
                   feedback_history, last_candidate, generation, validation,
                   context_validation, last_generation, last_validation, result,
                   produced>>

\* main.py:144-153
AfterLoop ==
    /\ pc = "after_loop"
    /\ IF NoAttemptProduced(last_generation, last_validation)
       THEN /\ pc' = "raised"
            /\ error' = "RuntimeError"
            /\ UNCHANGED result
       ELSE /\ result' = [generation |-> last_generation,
                          validation |-> last_validation,
                          is_valid |-> FALSE,
                          attempts_used |-> ExhaustedAttemptsUsed(attempt, max_attempts)]
            /\ pc' = "returned"
            /\ UNCHANGED error
    /\ UNCHANGED <<request, max_attempts, system_context, generator, attempt, documents,
                   feedback_history, last_candidate, generation, validation,
                   context_validation, last_generation, last_validation, calls,
                   produced>>

Next ==
    \/ Retrieve
    \/ RetrieveFails
    \/ Generate
    \/ GenerateTypeError
    \/ GenerateFails
    \/ SyntaxValidate
    \/ SyntaxValidateFails
    \/ SyntaxValidateRaises
    \/ ContextValidate
    \/ ContextValidateFails
    \/ ContextValidateRaises
    \/ AfterLoop

Spec == Init /\ [][Next]_vars

\* -------------------------------------------------------------- properties

\* run_generation_loop has returned or raised.
Ended == pc \in {"returned", "raised"}

\* The positions of the calls to collaborator op made in attempt n.
CallsOf(op, n) == {i \in 1..Len(calls) : calls[i].op = op /\ calls[i].attempt = n}

\* The attempts in which some call was made.
AttemptsRun == {calls[i].attempt : i \in 1..Len(calls)} \ {0}

\* In attempt n the syntax validator, and the context validator when one is
\* configured, returned a passing verdict.
FullPass(n) ==
    /\ \E i \in CallsOf("syntax", n) : calls[i].outcome = "valid"
    /\ system_context # None =>
          \E i \in CallsOf("context", n) : calls[i].outcome = "valid"

\* C1: the loop returns is_valid = TRUE only when the attempt that produced the
\* returned candidate passed the syntax validator and, with a system context
\* supplied, the context validator too; and once an attempt has fully passed the
\* loop has returned that attempt and made no later call.
C1_ValidOnlyOnFullPass ==
    /\ (pc = "returned" /\ result.is_valid) =>
          /\ attempt \in AttemptsRun
          /\ FullPass(attempt)
          /\ result.generation.openhab_code = produced[Len(produced)]
          /\ Len(produced) = attempt
          /\ calls[Len(calls)].attempt = attempt
    /\ \A n \in AttemptsRun :
          FullPass(n) =>
              /\ pc = "returned"
              /\ result.is_valid
              /\ \A i \in 1..Len(calls) : calls[i].attempt <= n

C1_Witness ==
    /\ pc = "returned"
    /\ result.is_valid
    /\ system_context # None
    /\ attempt = 2
    /\ max_attempts = 3

\* C2: every call of the context validator directly follows a passing verdict of
\* the syntax validator in the same attempt, and is made only when a system
\* context was supplied.
C2_ContextOnlyAfterSyntaxPass ==
    /\ \A i \in 1..Len(calls) :
          calls[i].op = "context" =>
              /\ system_context # None
              /\ i > 1
              /\ calls[i - 1].op = "syntax"
              /\ calls[i - 1].attempt = calls[i].attempt
              /\ calls[i - 1].outcome = "valid"
    /\ pc = "context" =>
          /\ system_context # None
          /\ calls[Len(calls)].op = "syntax"
          /\ calls[Len(calls)].attempt = attempt
          /\ calls[Len(calls)].outcome = "valid"

C2_Witness ==
    /\ \E i \in CallsOf("syntax", 1) : calls[i].outcome = "invalid"
    /\ CallsOf("context", 1) = {}
    /\ CallsOf("context", 2) # {}

\* Attempt n ran to its verdicts: one of the syntax validator and, when that one
\* passed and a system context was supplied, one of the context validator.
Verdicted(n) ==
    /\ \E i \in CallsOf("syntax", n) : calls[i].outcome \in {"valid", "invalid"}
    /\ ( /\ system_context # None
         /\ \E i \in CallsOf("syntax", n) : calls[i].outcome = "valid" )
       => \E i \in CallsOf("context", n) : calls[i].outcome \in {"valid", "invalid"}

\* Every attempt of the budget ran to its verdicts, none of them fully passed, and
\* no call to an external service failed.
BudgetExhausted ==
    /\ Ended
    /\ max_attempts >= 1
    /\ error # "ServiceError"
    /\ \A n \in 1..max_attempts : Verdicted(n) /\ ~FullPass(n)

\* The verdict of the syntax validator in attempt n.
SyntaxVerdictOutcome(n) == calls[CHOOSE i \in CallsOf("syntax", n) : TRUE].outcome

\* C3: when the budget is exhausted without a full pass, the loop returns (it does
\* not raise) a result with is_valid = FALSE that carries the last generation.
C3_ExhaustionReturns ==
    BudgetExhausted =>
        /\ pc = "returned"
        /\ error = NoError
        /\ result.is_valid = FALSE
        /\ result.generation.openhab_code = produced[Len(produced)]

\* C4: with a context validator that rejects every attempt, a syntax validator
\* that accepts every attempt and max_attempts = 2, the loop returns
\* is_valid = FALSE, attempts_used = 2, a null validation, and two feedback entries
\* of the context validator, for attempts 1 and 2.
C4_ContextAlwaysInvalid ==
    ( /\ BudgetExhausted
      /\ max_attempts = 2
      /\ system_context # None
      /\ \A n \in 1..2 :
            /\ SyntaxVerdictOutcome(n) = "valid"
            /\ \E i \in CallsOf("context", n) : calls[i].outcome = "invalid" )
    =>  /\ pc = "returned"
        /\ result.is_valid = FALSE
        /\ result.attempts_used = 2
        /\ result.validation = None
        /\ Len(feedback_history) = 2
        /\ \A n \in 1..2 :
              feedback_history[n].source = FeedbackSource("context_validator", n)

\* C5: the code of the returned generation is the code generated in the last
\* attempt that ran, on success and on exhaustion alike.
C5_ReturnsLastGeneration ==
    pc = "returned" =>
        /\ produced # <<>>
        /\ Len(produced) = Cardinality(AttemptsRun)
        /\ result.generation.openhab_code = produced[Len(produced)]
        /\ result.generation = generation

C5_Witness ==
    /\ pc = "returned"
    /\ ~result.is_valid
    /\ Len(produced) = 3
    /\ produced[1] # produced[2]
    /\ produced[2] # produced[3]

\* C6: attempts_used is the 1-based index of the attempt that fully passed when
\* is_valid = TRUE, and max_attempts when is_valid = FALSE.
C6_AttemptsUsed ==
    pc = "returned" =>
        IF result.is_valid
        THEN /\ result.attempts_used \in 1..max_attempts
             /\ FullPass(result.attempts_used)
             /\ result.attempts_used = Cardinality(AttemptsRun)
        ELSE result.attempts_used = max_attempts

C6_Witness ==
    /\ pc = "returned"
    /\ result.is_valid
    /\ result.attempts_used = 2
    /\ max_attempts = 3

\* The verdicts that rejected a candidate, in the order they were returned.
FailedVerdicts ==
    SelectSeq(calls, LAMBDA e : e.op \in {"syntax", "context"} /\ e.outcome = "invalid")

\* The feedback source the loop names for a rejecting verdict.
SourceOf(e) ==
    FeedbackSource(IF e.op = "syntax" THEN "syntax_validator" ELSE "context_validator",
                   e.attempt)

\* s holds nothing but whitespace.
IsBlank(s) == \A i \in 1..Len(s) : s[i] \in Whitespace

\* m is text without the whitespace around it.
IsTrimmed(m, text) ==
    /\ m # <<>>
    /\ m[1] \notin Whitespace
    /\ m[Len(m)] \notin Whitespace
    /\ \E a \in 0..Len(text) :
          /\ a + Len(m) <= Len(text)
          /\ SubSeq(text, a + 1, a + Len(m)) = m
          /\ IsBlank(SubSeq(text, 1, a))
          /\ IsBlank(SubSeq(text, a + Len(m) + 1, Len(text)))

\* C7, as stated: every failing attempt appends exactly one feedback entry, named
\* after the stage that failed and the attempt, a passing attempt appends none, and
\* a success at attempt k leaves exactly k - 1 entries.
C7_OneEntryPerFailure ==
    /\ Len(feedback_history) = Len(FailedVerdicts)
    /\ \A k \in 1..Len(feedback_history) :
          k <= Len(FailedVerdicts) =>
              feedback_history[k].source = SourceOf(FailedVerdicts[k])
    /\ (pc = "returned" /\ result.is_valid) =>
          Len(feedback_history) = result.attempts_used - 1

\* The rejecting verdicts whose feedback text is not blank.
RecordedVerdicts == SelectSeq(FailedVerdicts, LAMBDA e : ~IsBlank(e.text))

\* C7, amended: every failing attempt whose verdict gives a feedback text that is
\* not blank appends exactly one entry, named after the stage that failed and the
\* attempt and holding the trimmed text; a failing attempt whose text is blank and
\* a passing attempt append none; a success at attempt k leaves at most k - 1
\* entries, in attempt order.
C7_OneEntryPerNonBlankFailure ==
    /\ Len(feedback_history) = Len(RecordedVerdicts)
    /\ \A k \in 1..Len(feedback_history) :
          k <= Len(RecordedVerdicts) =>
              /\ feedback_history[k].source = SourceOf(RecordedVerdicts[k])
              /\ IsTrimmed(feedback_history[k].message, RecordedVerdicts[k].text)
    /\ \A j, k \in 1..Len(feedback_history) :
          j < k => feedback_history[j].source.attempt < feedback_history[k].source.attempt
    /\ (pc = "returned" /\ result.is_valid) =>
          /\ Len(feedback_history) <= result.attempts_used - 1
          /\ (\A i \in 1..Len(FailedVerdicts) : ~IsBlank(FailedVerdicts[i].text)) =>
                Len(feedback_history) = result.attempts_used - 1

C7_Witness ==
    /\ pc = "returned"
    /\ result.is_valid
    /\ result.attempts_used = 3
    /\ Len(FailedVerdicts) = 2
    /\ IsBlank(FailedVerdicts[1].text)
    /\ Len(feedback_history) = 1
    /\ feedback_history[1].source = FeedbackSource("context_validator", 2)

\* The largest value the loop variable can take.
LastAttempt == IF max_attempts < 1 THEN 0 ELSE max_attempts

\* The generator, the syntax validator and the context validator are called at
\* most once per attempt, in attempts 1..max_attempts taken in increasing order.
BoundedCalls ==
    /\ attempt \in 0..LastAttempt
    /\ AttemptsRun \subseteq 1..LastAttempt
    /\ \A n \in AttemptsRun :
          /\ Cardinality(CallsOf("generate", n)) = 1
          /\ Cardinality(CallsOf("syntax", n)) <= 1
          /\ Cardinality(CallsOf("context", n)) <= 1
    /\ \A i \in 1..Len(calls) :
          /\ calls[i].attempt <= attempt
          /\ i > 1 => calls[i].attempt \in {calls[i - 1].attempt, calls[i - 1].attempt + 1}
          /\ i > 1 => (calls[i].attempt = calls[i - 1].attempt + 1 <=> calls[i].op = "generate")

\* Every step but the one after the loop makes one call, and the step after the
\* loop ends the function.
Progress ==
    \/ Len(calls') = Len(calls) + 1
    \/ pc = "after_loop" /\ pc' \in {"returned", "raised"}

\* C8: the loop calls each collaborator at most once per attempt, over attempts
\* 1..max_attempts in increasing order, and then returns or raises: the number of
\* calls is bounded by the budget, every step adds a call or ends the function,
\* and a step is possible until the function has ended.
C8_Terminates ==
    /\ [](BoundedCalls /\ Len(calls) <= 1 + 3 * LastAttempt /\ (Ended \/ ENABLED Next))
    /\ [][Progress]_vars

C8_Witness ==
    /\ Ended
    /\ max_attempts = 3
    /\ Cardinality(CallsOf("generate", 3)) = 1
    /\ Cardinality(CallsOf("context", 3)) = 1

\* C9: a call to an external service that fails is the last call the loop makes;
\* the failure leaves the function and no result is returned.
C9_ServiceFailurePropagates ==
    \A i \in 1..Len(calls) :
        calls[i].outcome = "raised" =>
            /\ i = Len(calls)
            /\ pc = "raised"
            /\ error = "ServiceError"
            /\ result = None
            /\ attempt = calls[i].attempt

C9_Witness ==
    /\ pc = "raised"
    /\ error = "ServiceError"
    /\ calls[Len(calls)].op = "context"
    /\ calls[Len(calls)].attempt = 2
    /\ max_attempts = 3

\* C10: a loop that ends its range with no generation produced (max_attempts < 1)
\* raises the internal-consistency error and returns nothing.
C10_NoAttemptsRaises ==
    (Ended /\ produced = <<>> /\ error \notin {"ServiceError", "TypeError"}) =>
        /\ max_attempts < 1
        /\ pc = "raised"
        /\ error = "RuntimeError"
        /\ result = None

C10_Witness ==
    /\ pc = "raised"
    /\ error = "RuntimeError"
    /\ max_attempts < 1
    /\ calls # <<>>

\* ------------------------------------------- PromptBuilder, call by call

\* The longest feedback history explored.
MaxFeedback == 2

\* The source arguments of add_feedback.
FeedbackSources == { <<"s", "1">>, <<"c", "2">> }

\* The message arguments of add_feedback: None, empty, blank, plain, with
\* whitespace around it, of two lines.
FeedbackMessages ==
    { NoStr, <<>>, <<" ", "\n">>, <<"m">>, <<" ", "m", "\n">>, <<"a", "\n", "b">> }

\* The candidate_code arguments of record_candidate and validator_variables.
CandidateCodes == { <<>>, <<" ", "A", "\n">>, <<"B">> }

\* A PromptBuilder(request=...) whose documents and system_context the caller
\* has set; result is the last call made on it with what it returned.
BuilderInit ==
    /\ request \in Requests
    /\ documents \in RetrievedDocuments
    /\ system_context \in SystemContexts \cup {None}
    /\ feedback_history = <<>>
    /\ last_candidate = NoStr
    /\ result = [op |-> "PromptBuilder"]
    /\ pc = "builder"
    /\ max_attempts = 0
    /\ generator = "PolicyGeneratorAgent"
    /\ attempt = 0
    /\ generation = None
    /\ validation = None
    /\ context_validation = None
    /\ last_generation = None
    /\ last_validation = None
    /\ error = NoError
    /\ calls = <<>>
    /\ produced = <<>>

AddFeedback ==
    \E source \in FeedbackSources, message \in FeedbackMessages :
        /\ Len(feedback_history) < MaxFeedback
        /\ feedback_history' = add_feedback(feedback_history, source, message)
        /\ result' = [op |-> "add_feedback", source |-> source, message |-> message,
                      before |-> feedback_history]
        /\ UNCHANGED <<request, max_attempts, system_context, generator, pc, attempt,
                       documents, last_candidate, generation, validation,
                       context_validation, last_generation, last_validation, error,
                       calls, produced>>

RecordCandidate ==
    \E candidate_code \in CandidateCodes :
        /\ last_candidate' = record_candidate(candidate_code)
        /\ result' = [op |-> "record_candidate", candidate_code |-> candidate_code]
        /\ UNCHANGED <<request, max_attempts, system_context, generator, pc, attempt,
                       documents, feedback_history, generation, validation,
                       context_validation, last_generation, last_validation, error,
                       calls, produced>>

GeneratorVariables ==
    /\ result' = [op |-> "generator_variables",
                  value |-> generator_variables(request, documents, feedback_history,
                                                last_candidate, system_context)]
    /\ UNCHANGED <<request, max_attempts, system_context, generator, pc, attempt,
                   documents, feedback_history, last_candidate, generation, validation,
                   context_validation, last_generation, last_validation, error,
                   calls, produced>>

ValidatorVariables ==
    \E candidate_code \in CandidateCodes :
        /\ result' = [op |-> "validator_variables", candidate_code |-> candidate_code,
                      value |-> validator_variables(request, documents,
                                                    feedback_history, last_candidate,
                                                    system_context, candidate_code)]
        /\ UNCHANGED <<request, max_attempts, system_context, generator, pc, attempt,
                       documents, feedback_history, last_candidate, generation,
                       validation, context_validation, last_generation,
                       last_validation, error, calls, produced>>

BuilderNext ==
    \/ AddFeedback
    \/ RecordCandidate
    \/ GeneratorVariables
    \/ ValidatorVariables

BuilderSpec == BuilderInit /\ [][BuilderNext]_vars

\* The last call was add_feedback.
AddFeedbackCalled == result.op = "add_feedback"

\* The history is the one before the call with one entry appended.
AppendedOne ==
    /\ Len(feedback_history) = Len(result.before) + 1
    /\ SubSeq(feedback_history, 1, Len(result.before)) = result.before
    /\ feedback_history[Len(feedback_history)].source = result.source

\* The message is None or holds nothing but whitespace.
NoMessage(m) == m = NoStr \/ IsBlank(m)

\* C11 as the spec states it: add_feedback with an empty or whitespace-only
\* message leaves the history as it was; with any other message it appends one
\* entry at the end, earlier entries untouched, whose source and message are the
\* arguments of the call.
C11_AppendsTheArguments ==
    AddFeedbackCalled =>
        IF NoMessage(result.message) THEN feedback_history = result.before
        ELSE /\ AppendedOne
             /\ feedback_history[Len(feedback_history)].message = result.message

\* C11: add_feedback with an empty or whitespace-only message leaves the history
\* as it was; with any other message it appends one entry at the end, earlier
\* entries untouched, whose source is the argument and whose message is the
\* argument without the whitespace around it.
C11_AppendsTheTrimmedMessage ==
    AddFeedbackCalled =>
        IF NoMessage(result.message) THEN feedback_history = result.before
        ELSE /\ AppendedOne
             /\ IsTrimmed(feedback_history[Len(feedback_history)].message,
                          result.message)

C11_Witness ==
    /\ AddFeedbackCalled
    /\ result.before # <<>>
    /\ result.message = <<" ", "m", "\n">>
    /\ Len(feedback_history) = 2

\* The last call was validator_variables.
ValidatorVariablesCalled == result.op = "validator_variables"

\* What generator_variables() returns in this state.
GeneratorVariablesNow ==
    generator_variables(request, documents, feedback_history, last_candidate,
                        system_context)

\* C12: validator_variables returns the keys of generator_variables() without
\* prior_code and with candidate_code, the values of request, context and feedback
\* being those of generator_variables() in the same state, and the call leaves
\* the feedback history, the last candidate and the system context as they were.
C12_ValidatorVariables ==
    /\ [](ValidatorVariablesCalled =>
            /\ DOMAIN result.value =
                   (DOMAIN GeneratorVariablesNow \ {"prior_code"}) \cup {"candidate_code"}
            /\ DOMAIN GeneratorVariablesNow = GeneratorVariablesKeys
            /\ \A k \in {"request", "context", "feedback"} :
                   result.value[k] = GeneratorVariablesNow[k])
    /\ [][ValidatorVariablesCalled' =>
            UNCHANGED <<feedback_history, last_candidate, system_context>>]_vars

C12_Witness ==
    /\ ValidatorVariablesCalled
    /\ result.candidate_code = <<" ", "A", "\n">>
    /\ Len(feedback_history) = 2
    /\ last_candidate = <<"B">>
    /\ system_context # None
    /\ documents # <<>>

\* The last call returned the prompt variables.
VariablesReturned == result.op \in {"generator_variables", "validator_variables"}

\* The numbered item of the i-th entry of the history: number, source in
\* parentheses, message.
FeedbackItem(i) ==
    IntToStr(i) \o <<".", " ", "(">> \o feedback_history[i].source \o <<")", " ">>
    \o feedback_history[i].message

\* Where the i-th item starts in a text that holds the items one newline apart.
RECURSIVE ItemStart(_)
ItemStart(i) == IF i = 1 THEN 1 ELSE ItemStart(i - 1) + Len(FeedbackItem(i - 1)) + 1

\* text holds the items of all entries, in the order of the history, one newline
\* apart, and nothing else.
HoldsTheItems(text) ==
    LET k == Len(feedback_history)
    IN /\ Len(text) = ItemStart(k) + Len(FeedbackItem(k)) - 1
       /\ \A i \in 1..k :
             /\ SubSeq(text, ItemStart(i), ItemStart(i) + Len(FeedbackItem(i)) - 1)
                    = FeedbackItem(i)
             /\ i > 1 => text[ItemStart(i) - 1] = "\n"

\* The number of lines of a text.
LineCount(text) == Cardinality({i \in 1..Len(text) : text[i] = "\n"}) + 1

\* C13 as the spec states it: the feedback variable is "None." exactly when the
\* history is empty, and otherwise it has one line per entry, the i-th naming the
\* i-th entry's source and message.
C13_OneLinePerEntry ==
    VariablesReturned =>
        /\ result.value["feedback"] = S_NoFeedback <=> feedback_history = <<>>
        /\ feedback_history # <<>> =>
              /\ HoldsTheItems(result.value["feedback"])
              /\ LineCount(result.value["feedback"]) = Len(feedback_history)

\* C13: the feedback variable is "None." exactly when the history is empty, and
\* otherwise it holds one numbered item per entry, numbered from 1 in the order
\* of the history, each naming the entry's source and message as stored; an item
\* has as many lines as its message.
C13_OneItemPerEntry ==
    VariablesReturned =>
        /\ result.value["feedback"] = S_NoFeedback <=> feedback_history = <<>>
        /\ feedback_history # <<>> =>
              /\ HoldsTheItems(result.value["feedback"])
              /\ LineCount(result.value["feedback"])
                     = LineCount(Join([i \in 1..Len(feedback_history) |->
                                          feedback_history[i].message], NL))

C13_Witness ==
    /\ VariablesReturned
    /\ Len(feedback_history) = 2
    /\ feedback_history[1].message = <<"a", "\n", "b">>
    /\ feedback_history[2].message = <<"m">>
    /\ LineCount(result.value["feedback"]) = 3

\* ------------------------------------- regular expressions (rule_parser.py)

\* The character at position i, "" outside the text.
At(t, i) == IF i \in 1..Len(t) THEN t[i] ELSE ""

\* A literal of a pattern compiled with re.IGNORECASE matches at position i.
MatchesAt(t, i, literal) ==
    /\ i >= 1
    /\ i + Len(literal) - 1 <= Len(t)
    /\ Lower(SubSeq(t, i, i + Len(literal) - 1)) = Lower(literal)

\* \b matches between positions i - 1 and i.
WordBoundary(t, i) == (At(t, i - 1) \in WordChars) # (At(t, i) \in WordChars)

\* The least element of a set of positions.
Least(positions) == CHOOSE i \in positions : \A j \in positions : i <= j

\* \s* from position i: the position after the whitespace.
SkipSpace(t, i) ==
    IF i > Len(t) THEN i
    ELSE Least({j \in i..Len(t) + 1 : At(t, j) \notin Whitespace})

\* \w* from position i: the position after the word characters.
SkipWord(t, i) ==
    IF i > Len(t) THEN i
    ELSE Least({j \in i..Len(t) + 1 : At(t, j) \notin WordChars})

\* [^"]* from position i: the position of the next double quote, or past the end.
SkipToQuote(t, i) ==
    IF i > Len(t) THEN i
    ELSE Least({j \in i..Len(t) + 1 : At(t, j) \in {"\"", ""}})

\* A pattern does not match at a position.
NoMatch == <<0, 0, 0>>

S_rule == <<"r", "u", "l", "e">>
S_when == <<"w", "h", "e", "n">>
S_then == <<"t", "h", "e", "n">>
S_end == <<"e", "n", "d">>
S_Item == <<"I", "t", "e", "m">>
S_changed == <<"c", "h", "a", "n", "g", "e", "d">>
S_received == <<"r", "e", "c", "e", "i", "v", "e", "d">>
S_sendCommand == <<"s", "e", "n", "d", "C", "o", "m", "m", "a", "n", "d">>
S_postUpdate == <<"p", "o", "s", "t", "U", "p", "d", "a", "t", "e">>
S_dot_state == <<".", "s", "t", "a", "t", "e">>

\* The backtick. A string of this module cannot hold the character itself; the
\* apostrophe, which no text below holds, stands for it.
Backtick == "'"

S_fence == <<Backtick, Backtick, Backtick>>

\* rule\s+" at position i, the start of RULE_PATTERN and of the split pattern
RuleHeader(t, i) ==
    LET quote == SkipSpace(t, i + 4)
    IN MatchesAt(t, i, S_rule) /\ quote > i + 4 /\ At(t, quote) = "\""

\* The match of a pattern at position i as <<position after the match, first and
\* last position of group 1>>, NoMatch if there is none. Every repetition is
\* followed by a character it cannot match, so that the greedy match is the only
\* one.
Match(pattern, t, i) ==
    CASE pattern = "RULE_PATTERN" ->
            LET quote == SkipSpace(t, i + 4)
                close == SkipToQuote(t, quote + 1)
            IN IF RuleHeader(t, i) /\ close > quote + 1 /\ close <= Len(t)
               THEN <<close + 1, quote + 1, close - 1>> ELSE NoMatch
      [] pattern = "ITEM_CHANGED_PATTERN" ->
            LET name == SkipSpace(t, i + 4)
                space == SkipWord(t, name)
                verb == SkipSpace(t, space)
            IN IF /\ MatchesAt(t, i, S_Item)
                  /\ name > i + 4
                  /\ space > name
                  /\ verb > space
                  /\ MatchesAt(t, verb, S_changed) \/ MatchesAt(t, verb, S_received)
               THEN <<verb + (IF MatchesAt(t, verb, S_changed) THEN Len(S_changed)
                              ELSE Len(S_received)),
                      name, space - 1>>
               ELSE NoMatch
      [] pattern \in {"SEND_COMMAND_PATTERN", "POST_UPDATE_PATTERN"} ->
            LET call == IF pattern = "SEND_COMMAND_PATTERN" THEN S_sendCommand
                        ELSE S_postUpdate
                paren == SkipSpace(t, i + Len(call))
                name == SkipSpace(t, paren + 1)
                after == SkipWord(t, name)
            IN IF MatchesAt(t, i, call) /\ At(t, paren) = "(" /\ after > name
               THEN <<after, name, after - 1>> ELSE NoMatch
      [] pattern = "ITEM_STATE_PATTERN" ->
            LET dot == SkipWord(t, i)
            IN IF dot > i /\ MatchesAt(t, dot, S_dot_state)
               THEN <<dot + Len(S_dot_state), i, dot - 1>> ELSE NoMatch

\* The positions from which a pattern matches.
MatchStarts(pattern, t, from) == {i \in from..Len(t) : Match(pattern, t, i)[1] > 0}

RECURSIVE FindAll(_, _, _)
\* [match.group(1) for match in pattern.finditer(t)], from position from on
FindAll(pattern, t, from) ==
    IF MatchStarts(pattern, t, from) = {} THEN <<>>
    ELSE LET m == Match(pattern, t, Least(MatchStarts(pattern, t, from)))
         IN <<SubSeq(t, m[2], m[3])>> \o FindAll(pattern, t, m[1])

\* \bkeyword\b at position i
Keyword(t, i, keyword) ==
    /\ MatchesAt(t, i, keyword)
    /\ WordBoundary(t, i)
    /\ WordBoundary(t, i + Len(keyword))

\* Group 1 of the search for \bopen\b(.*?)\bclose\b with re.DOTALL, "" if there
\* is no match: the text from the first open to the first close after it.
Clause(t, open, close) ==
    LET opens == {i \in 1..Len(t) : Keyword(t, i, open)}
        closes(from) == {i \in from..Len(t) : Keyword(t, i, close)}
    IN IF opens = {} THEN <<>>
       ELSE LET start == Least(opens) + Len(open)
            IN IF closes(start) = {} THEN <<>>
               ELSE SubSeq(t, start, Least(closes(start)) - 1)

\* literal in t
Contains(t, literal) ==
    \E i \in 1..Len(t) :
        i + Len(literal) - 1 <= Len(t) /\ SubSeq(t, i, i + Len(literal) - 1) = literal

\* ------------------------------------------------- RuleParser (rule_parser.py)

RECURSIVE BagOfList(_)
\* A list of names as a bag: what it holds and how often. Python does not fix the
\* order of list(set(...)), and no reader of these lists depends on it.
BagOfList(names) ==
    IF names = <<>> THEN EmptyBag
    ELSE SetToBag({Head(names)}) (+) BagOfList(Tail(names))

\* list(set(items))
ListOfSet(items) == SetToBag(BagToSet(items))

\* RuleParser._extract_items_from_when
extract_items_from_when(when_clause) ==
    ListOfSet(BagOfList(FindAll("ITEM_CHANGED_PATTERN", when_clause, 1)
                        \o FindAll("ITEM_STATE_PATTERN", when_clause, 1)))

\* RuleParser._extract_items_from_then
extract_items_from_then(then_clause) ==
    ListOfSet(BagOfList(FindAll("SEND_COMMAND_PATTERN", then_clause, 1)
                        \o FindAll("POST_UPDATE_PATTERN", then_clause, 1)
                        \o FindAll("ITEM_STATE_PATTERN", then_clause, 1)))

all_items_concatenated(trigger_items, action_items) == trigger_items (+) action_items

\* rule_parser.py:70, all_items = list(set(trigger_items + action_items))
all_items_of(trigger_items, action_items) == ListOfSet(trigger_items (+) action_items)

\* RuleParser.parse_rule on a string: the ParsedRule, or None.
parse_rule(text) ==
    LET rule_text == Strip(text)
        name_match == MatchStarts("RULE_PATTERN", rule_text, 1)
        name == Match("RULE_PATTERN", rule_text, Least(name_match))
        trigger_items == extract_items_from_when(Clause(rule_text, S_when, S_then))
        action_items == extract_items_from_then(Clause(rule_text, S_then, S_end))
    IN IF rule_text = <<>> \/ ~Contains(Lower(rule_text), S_rule) THEN None
       ELSE IF name_match = {} THEN None
       ELSE [name |-> SubSeq(rule_text, name[2], name[3]),
             raw_text |-> rule_text,
             trigger_items |-> trigger_items,
             action_items |-> action_items,
             all_items |-> all_items_of(trigger_items, action_items)]

RECURSIVE SplitAt(_, _, _)
\* str.split(separator), from position from on
SplitAt(t, separator, from) ==
    LET found == {i \in from..Len(t) : t[i] = separator}
    IN IF found = {} THEN <<SubSeq(t, from, Len(t))>>
       ELSE <<SubSeq(t, from, Least(found) - 1)>>
            \o SplitAt(t, separator, Least(found) + 1)

\* re.sub of rule_parser.py:137 with re.MULTILINE: a line that starts with three
\* backticks is emptied.
RemoveFences(block) ==
    LET lines == SplitAt(block, "\n", 1)
    IN Join([i \in 1..Len(lines) |->
                IF StartsWith(lines[i], S_fence) THEN <<>> ELSE lines[i]],
            NL)

\* The positions at which (?=\brule\s+") matches.
SplitPoints(content) ==
    {i \in 1..Len(content) : WordBoundary(content, i) /\ RuleHeader(content, i)}

RECURSIVE SplitAtPoints(_, _, _)
\* re.split at the empty matches at points: the pieces between them.
SplitAtPoints(content, points, from) ==
    IF points = {} THEN <<SubSeq(content, from, Len(content))>>
    ELSE <<SubSeq(content, from, Least(points) - 1)>>
         \o SplitAtPoints(content, points \ {Least(points)}, Least(points))

RECURSIVE ParseBlocks(_)
\* The loop of RuleParser.parse_rules_text over the blocks.
ParseBlocks(rule_blocks) ==
    IF rule_blocks = <<>> THEN <<>>
    ELSE LET block == Head(rule_blocks)
             parsed == parse_rule(Strip(RemoveFences(block)))
         IN (IF Strip(block) = <<>> \/ parsed = None THEN <<>> ELSE <<parsed>>)
            \o ParseBlocks(Tail(rule_blocks))

\* RuleParser.parse_rules_text on a string
parse_rules_text(content) ==
    ParseBlocks(SplitAtPoints(content, SplitPoints(content), 1))

\* --------------------------------------------------- RuleParser, call by call

\* The most rules a rules text holds.
MaxRules == 2

N_LampOn == <<"L", "a", "m", "p", " ", "o", "n">>
N_LampOff == <<"L", "a", "m", "p", " ", "o", "f", "f">>
W_Motion ==
    <<"I", "t", "e", "m", " ", "M", "o", "t", "i", "o", "n", "_", "S", "e",
      "n", "s", "o", "r", " ", "c", "h", "a", "n", "g", "e", "d">>
W_Lamp ==
    <<"I", "t", "e", "m", " ", "l", "a", "m", "p", " ", "r", "e", "c", "e",
      "i", "v", "e", "d", " ", "c", "o", "m", "m", "a", "n", "d">>
W_Started ==
    <<"S", "y", "s", "t", "e", "m", " ", "s", "t", "a", "r", "t", "e", "d">>
T_Receiver ==
    <<"L", "i", "g", "h", "t", ".", "s", "e", "n", "d", "C", "o", "m", "m",
      "a", "n", "d", "(", "O", "N", ")">>
T_Call ==
    <<"s", "e", "n", "d", "C", "o", "m", "m", "a", "n", "d", "(", "3", "d",
      "_", "L", "i", "g", "h", "t", ",", " ", "O", "N", ")">>
T_State ==
    <<"i", "f", " ", "(", "M", "o", "t", "i", "o", "n", "_", "S", "e", "n",
      "s", "o", "r", ".", "s", "t", "a", "t", "e", " ", "=", "=", " ", "O",
      "N", ")", " ", "L", "i", "g", "h", "t", ".", "p", "o", "s", "t", "U",
      "p", "d", "a", "t", "e", "(", "O", "F", "F", ")">>
T_Log ==
    <<"l", "o", "g", "I", "n", "f", "o", "(", "\"", "H", "e", "a", "t", "i",
      "n", "g", " ", "r", "u", "l", "e", " ", "\"", ",", " ", "\"", "f", "i",
      "r", "e", "d", "\"", ")">>
S_NotARule == <<"n", "o", "t", " ", "a", " ", "r", "u", "l", "e">>
S_JustSomeText ==
    <<"j", "u", "s", "t", " ", "s", "o", "m", "e", " ", "t", "e", "x", "t">>
S_Motion_Sensor ==
    <<"M", "o", "t", "i", "o", "n", "_", "S", "e", "n", "s", "o", "r">>
S_Light == <<"L", "i", "g", "h", "t">>
S_HeaderOpen == <<"r", "u", "l", "e", " ", "\"">>
S_HeaderClose == <<"\"", "\n", "w", "h", "e", "n", "\n", " ", " ", " ", " ">>
S_ThenLine == <<"\n", "t", "h", "e", "n", "\n", " ", " ", " ", " ">>
S_EndLine == <<"\n", "e", "n", "d", "\n">>
S_FenceOpen == <<Backtick, Backtick, Backtick, "j", "a", "v", "a", "\n">>
S_FenceClose == <<Backtick, Backtick, Backtick, "\n">>

\* The rules written into candidate texts: a name, the triggers of the when
\* clause, the actions of the then clause.
RuleNames == {N_LampOn, N_LampOff}
WhenClauses == {W_Motion, W_Lamp, W_Started}
ThenClauses == {T_Receiver, T_Call, T_State, T_Log}
Rules == [name : RuleNames, when : WhenClauses, then : ThenClauses]

\* The rule block of a rule: header, when clause, then clause, end.
Block(rule) ==
    S_HeaderOpen \o rule.name \o S_HeaderClose \o rule.when \o S_ThenLine
    \o rule.then \o S_EndLine

\* The rules the texts of several rules are written from.
ListedRules ==
    { [name |-> N_LampOn, when |-> W_Motion, then |-> T_Receiver],
      [name |-> N_LampOff, when |-> W_Lamp, then |-> T_Call],
      [name |-> N_LampOff, when |-> W_Motion, then |-> T_State],
      [name |-> N_LampOn, when |-> W_Started, then |-> T_Log] }

RuleLists == UNION {[1..n -> ListedRules] : n \in 0..MaxRules}

\* The text of a list of rules, one block after the other, as a generator
\* answers it: bare, or inside a markdown fence.
RulesText(rules, fenced) ==
    (IF fenced THEN S_FenceOpen ELSE <<>>)
    \o Join([i \in 1..Len(rules) |-> Block(rules[i])], NL)
    \o (IF fenced THEN S_FenceClose ELSE <<>>)

\* Texts without a rule header, and no text at all.
NoRuleTexts == {<<>>, <<" ", "\n">>, S_NotARule, S_JustSomeText, NoStr}

\* The candidate texts handed to the parser.
CandidateTexts ==
    {Block(rule) : rule \in Rules} \cup NoRuleTexts
    \cup {RulesText(rules, fenced) : rules \in RuleLists, fenced \in BOOLEAN}

\* A RuleParser and the candidate text it is about to be given; result is the
\* call made and what it returned.
ParserInit ==
    /\ generation \in {[openhab_code |-> text] : text \in CandidateTexts}
    /\ result = [op |-> "RuleParser"]
    /\ pc = "parse"
    /\ error = NoError
    /\ request \in Requests
    /\ max_attempts = 0
    /\ system_context = None
    /\ generator = "PolicyGeneratorAgent"
    /\ attempt = 0
    /\ documents = <<>>
    /\ feedback_history = <<>>
    /\ last_candidate = NoStr
    /\ validation = None
    /\ context_validation = None
    /\ last_generation = None
    /\ last_validation = None
    /\ calls = <<>>
    /\ produced = <<>>

\* A call of the parser ends: what it returned, or the exception it raised.
ParserEnds(op, value, raised) ==
    /\ pc = "parse"
    /\ IF raised = NoError
       THEN pc' = "returned" /\ result' = [op |-> op, value |-> value]
       ELSE pc' = "raised" /\ result' = [op |-> op]
    /\ error' = raised
    /\ UNCHANGED <<request, max_attempts, system_context, generator, attempt,
                   documents, feedback_history, last_candidate, generation,
                   validation, context_validation, last_generation, last_validation,
                   calls, produced>>

ParseRule ==
    /\ generation.openhab_code # NoStr
    /\ ParserEnds("parse_rule", parse_rule(generation.openhab_code), NoError)

\* rule_parser.py:45, rule_text.strip() on None
ParseRuleRaises ==
    /\ generation.openhab_code = NoStr
    /\ ParserEnds("parse_rule", None, "AttributeError")

ParseRulesText ==
    /\ generation.openhab_code # NoStr
    /\ ParserEnds("parse_rules_text", parse_rules_text(generation.openhab_code),
                  NoError)

\* rule_parser.py:129, re.split on None
ParseRulesTextRaises ==
    /\ generation.openhab_code = NoStr
    /\ ParserEnds("parse_rules_text", None, "TypeError")

ParserNext ==
    \/ ParseRule
    \/ ParseRuleRaises
    \/ ParseRulesText
    \/ ParseRulesTextRaises

ParserSpec == ParserInit /\ [][ParserNext]_vars

\* The text handed to the parser.
ParsedText == generation.openhab_code

\* The parser was called and returned.
Returned(op) == pc = "returned" /\ result.op = op

\* The parser was called and raised.
Raised(op) == pc = "raised" /\ result.op = op

\* The records returned are one per rule, in the order of the rules, each with
\* the name of its rule.
OneRecordPerRule(rules) ==
    /\ Len(result.value) = Len(rules)
    /\ \A i \in 1..Len(rules) : result.value[i].name = rules[i].name

\* C14 as the spec states it: for a text of N well-formed rule blocks,
\* parse_rules_text returns N records in source order, the i-th with the name in
\* the i-th header.
C14_OneRecordPerBlock ==
    Returned("parse_rules_text") =>
        \A rules \in RuleLists, fenced \in BOOLEAN :
            ParsedText = RulesText(rules, fenced) => OneRecordPerRule(rules)

\* C15: parse_rule never raises; for the empty string, for text without a rule
\* header and for no text at all (None) it returns None.
C15_NeverRaises ==
    /\ ~Raised("parse_rule")
    /\ (Returned("parse_rule") /\ ParsedText \in NoRuleTexts) => result.value = None

\* The ParsedRule records the parser returned.
ParsedRules ==
    IF Returned("parse_rule")
    THEN IF result.value = None THEN {} ELSE {result.value}
    ELSE IF Returned("parse_rules_text")
    THEN {result.value[i] : i \in 1..Len(result.value)}
    ELSE {}

\* C16: the all_items of a parsed rule hold the names of its trigger_items and of
\* its action_items and no other, each once.
C16_AllItemsIsTheUnion ==
    \A rule \in ParsedRules :
        /\ BagToSet(rule.all_items)
               = BagToSet(rule.trigger_items) \cup BagToSet(rule.action_items)
        /\ \A name \in BagToSet(rule.all_items) : CopiesIn(name, rule.all_items) = 1

C16_Witness ==
    /\ Returned("parse_rule")
    /\ \E rule \in ParsedRules :
          /\ BagToSet(rule.trigger_items) \cap BagToSet(rule.action_items) # {}
          /\ BagToSet(rule.action_items) \ BagToSet(rule.trigger_items) # {}
          /\ BagCardinality(rule.all_items) = 2

\* C17: the rule with the trigger "Item Motion_Sensor changed" and the action
\* "Light.sendCommand(ON)" parses to trigger_items {Motion_Sensor}, action_items
\* {Light} and all_items {Motion_Sensor, Light}; ON is not among them.
C17_ReceiverIsTheAction ==
    (/\ Returned("parse_rule")
     /\ ParsedText = Block([name |-> N_LampOn, when |-> W_Motion, then |-> T_Receiver]))
        => /\ result.value # None
           /\ BagToSet(result.value.trigger_items) = {S_Motion_Sensor}
           /\ BagToSet(result.value.action_items) = {S_Light}
           /\ BagToSet(result.value.all_items) = {S_Motion_Sensor, S_Light}

\* C18: every name in trigger_items or action_items starts with an upper-case
\* letter and holds only letters, digits and underscores.
C18_NamesStartUpperCase ==
    \A rule \in ParsedRules :
        \A name \in BagToSet(rule.trigger_items) \cup BagToSet(rule.action_items) :
            /\ name # <<>>
            /\ name[1] \in {UpperLetters[i] : i \in 1..26}
            /\ \A i \in 1..Len(name) : name[i] \in WordChars

\* ------------------------------------ the validators' responses, as text

J_Valid ==
    <<"{", "\"", "v", "e", "r", "d", "i", "c", "t", "\"", ":", "\"", "v",
      "a", "l", "i", "d", "\"", ",", "\"", "s", "u", "m", "m", "a", "r", "y",
      "\"", ":", "\"", "o", "k", "\"", ",", "\"", "f", "e", "e", "d", "b",
      "a", "c", "k", "\"", ":", "\"", "\"", ",", "\"", "f", "i", "x", "e",
      "s", "\"", ":", "[", "]", "}">>
J_Invalid ==
    <<"{", "\"", "v", "e", "r", "d", "i", "c", "t", "\"", ":", "\"", "i",
      "n", "v", "a", "l", "i", "d", "\"", ",", "\"", "s", "u", "m", "m", "a",
      "r", "y", "\"", ":", "\"", "b", "a", "d", "\"", ",", "\"", "f", "e",
      "e", "d", "b", "a", "c", "k", "\"", ":", "\"", "w", "h", "y", "\"",
      ",", "\"", "f", "i", "x", "e", "s", "\"", ":", "[", "\"", "f", "i",
      "x", "\"", "]", "}">>
J_Warned ==
    <<"{", "\"", "v", "e", "r", "d", "i", "c", "t", "\"", ":", "\"", "v",
      "a", "l", "i", "d", "\"", ",", "\"", "s", "u", "m", "m", "a", "r", "y",
      "\"", ":", "\"", "o", "k", "\"", ",", "\"", "w", "a", "r", "n", "i",
      "n", "g", "s", "\"", ":", "[", "\"", "w", "h", "y", "\"", "]", "}">>
J_NoVerdict ==
    <<"{", "\"", "s", "u", "m", "m", "a", "r", "y", "\"", ":", "\"", "b",
      "a", "d", "\"", "}">>
J_Empty == <<"{", "}">>
J_List == <<"[", "]">>
J_Null == <<"n", "u", "l", "l">>
J_Number == <<"1">>
J_String == <<"\"", "v", "a", "l", "i", "d", "\"">>
J_Upper ==
    <<"{", "\"", "v", "e", "r", "d", "i", "c", "t", "\"", ":", "\"", "V",
      "A", "L", "I", "D", "\"", ",", "\"", "s", "u", "m", "m", "a", "r", "y",
      "\"", ":", "\"", "o", "k", "\"", "}">>
J_Prefixed ==
    <<"{", "\"", "v", "e", "r", "d", "i", "c", "t", "\"", ":", "\"", "v",
      "a", "l", "i", "d", "a", "t", "e", "d", "\"", ",", "\"", "s", "u", "m",
      "m", "a", "r", "y", "\"", ":", "\"", "o", "k", "\"", "}">>
S_VALID == <<"V", "A", "L", "I", "D">>
S_validated == <<"v", "a", "l", "i", "d", "a", "t", "e", "d">>

\* json.loads on the JSON documents the responses below are written from: the
\* text of a document, and what it decodes to (a dict, or a value that is none).
JsonDocuments ==
    { [text |-> J_Valid, is_dict |-> TRUE,
       value |-> [verdict |-> S_valid, summary |-> S_ok, feedback |-> <<>>,
                  fixes |-> <<>>]],
      [text |-> J_Invalid, is_dict |-> TRUE,
       value |-> [verdict |-> S_invalid, summary |-> S_bad, feedback |-> S_why,
                  fixes |-> <<S_fix>>]],
      [text |-> J_Warned, is_dict |-> TRUE,
       value |-> [verdict |-> S_valid, summary |-> S_ok, warnings |-> <<S_why>>]],
      [text |-> J_NoVerdict, is_dict |-> TRUE, value |-> [summary |-> S_bad]],
      [text |-> J_Empty, is_dict |-> TRUE, value |-> <<>>],
      [text |-> J_Upper, is_dict |-> TRUE,
       value |-> [verdict |-> S_VALID, summary |-> S_ok]],
      [text |-> J_Prefixed, is_dict |-> TRUE,
       value |-> [verdict |-> S_validated, summary |-> S_ok]],
      [text |-> J_List, is_dict |-> FALSE, value |-> <<>>],
      [text |-> J_Null, is_dict |-> FALSE, value |-> <<>>],
      [text |-> J_Number, is_dict |-> FALSE, value |-> <<>>],
      [text |-> J_String, is_dict |-> FALSE, value |-> <<>>] }

\* json.loads(text): a document with whitespace around it decodes, any other
\* text raises JSONDecodeError (decoded FALSE).
JsonLoads(text) ==
    LET found == {doc \in JsonDocuments : doc.text = Strip(text)}
    IN IF found = {} THEN [decoded |-> FALSE, is_dict |-> FALSE, value |-> <<>>]
       ELSE LET doc == CHOOSE doc \in found : TRUE
            IN [decoded |-> TRUE, is_dict |-> doc.is_dict, value |-> doc.value]

RECURSIVE LStripBackticks(_)
LStripBackticks(s) ==
    IF s # <<>> /\ Head(s) = Backtick THEN LStripBackticks(Tail(s)) ELSE s

RECURSIVE RStripBackticks(_)
RStripBackticks(s) ==
    IF s # <<>> /\ s[Len(s)] = Backtick
    THEN RStripBackticks(SubSeq(s, 1, Len(s) - 1))
    ELSE s

\* output.strip().strip(backtick)
StripBackticks(output) == RStripBackticks(LStripBackticks(Strip(output)))

RECURSIVE Remove(_, _)
\* s.replace(old, "")
Remove(s, old) ==
    LET found == {i \in 1..Len(s) : StartsWith(SubSeq(s, i, Len(s)), old)}
    IN IF found = {} THEN s
       ELSE SubSeq(s, 1, Least(found) - 1)
            \o Remove(SubSeq(s, Least(found) + Len(old), Len(s)), old)

S_UnableToDecode ==
    <<"U", "n", "a", "b", "l", "e", " ", "t", "o", " ", "d", "e", "c", "o",
      "d", "e", " ", "v", "a", "l", "i", "d", "a", "t", "o", "r", " ", "r",
      "e", "s", "p", "o", "n", "s", "e", ".">>
S_ContextUnparsed ==
    <<"C", "o", "n", "t", "e", "x", "t", " ", "v", "a", "l", "i", "d", "a",
      "t", "o", "r", " ", "r", "e", "s", "p", "o", "n", "s", "e", " ", "c",
      "o", "u", "l", "d", " ", "n", "o", "t", " ", "b", "e", " ", "p", "a",
      "r", "s", "e", "d", ".">>
S_json == <<"j", "s", "o", "n">>

\* The text ValidatorAgent._parse_output decodes at its second attempt.
Sanitized(output) == StripBackticks(output)

\* The text ContextValidatorAgent._parse_output decodes at its second attempt.
ContextSanitized(output) ==
    Remove(Remove(StripBackticks(output), S_fence \o S_json), S_fence)

\* ValidatorAgent._parse_output: what is decoded, or the dict that stands for
\* an undecodable response.
parse_output(output) ==
    IF JsonLoads(output).decoded THEN JsonLoads(output)
    ELSE IF JsonLoads(Sanitized(output)).decoded THEN JsonLoads(Sanitized(output))
    ELSE [decoded |-> TRUE, is_dict |-> TRUE,
          value |-> [verdict |-> S_invalid, summary |-> S_UnableToDecode,
                     feedback |-> Sanitized(output), fixes |-> <<>>]]

\* ContextValidatorAgent._parse_output
context_parse_output(output) ==
    IF JsonLoads(output).decoded THEN JsonLoads(output)
    ELSE IF JsonLoads(ContextSanitized(output)).decoded
    THEN JsonLoads(ContextSanitized(output))
    ELSE [decoded |-> TRUE, is_dict |-> TRUE,
          value |-> [verdict |-> S_invalid, summary |-> S_ContextUnparsed,
                     feedback |-> ContextSanitized(output), fixes |-> <<>>,
                     warnings |-> <<>>]]

\* validator_agent.py:93, context_validator.py:138: (response.content or "").strip()
OutputOf(content) == Strip(IF content = NoStr THEN <<>> ELSE content)

\* ValidatorAgent.validate from the service's response on: the ValidationResult;
\* parsed.get raises AttributeError when the response decodes to no dict.
validate(content) ==
    LET parsed == parse_output(OutputOf(content))
    IN IF parsed.is_dict
       THEN [raised |-> NoError,
             result |-> [raw_output |-> OutputOf(content)]
                        @@ ValidationResultOf(parsed.value)]
       ELSE [raised |-> "AttributeError", result |-> None]

\* ContextValidatorAgent.validate from the service's response on
context_validate(content) ==
    LET parsed == context_parse_output(OutputOf(content))
    IN IF parsed.is_dict
       THEN [raised |-> NoError,
             result |-> [raw_output |-> OutputOf(content)]
                        @@ ContextValidationResultOf(parsed.value)]
       ELSE [raised |-> "AttributeError", result |-> None]

\* ------------------------------------------- the validators, call by call

S_NoJson == <<"n", "o", " ", "j", "s", "o", "n">>
S_Here == <<"H", "e", "r", "e", ":", "\n">>

\* How a service wraps a JSON document: not at all, in whitespace, in a markdown
\* fence without and with the json tag, in backticks, in prose and a fence.
Wrappings == {"bare", "padded", "fenced", "json_fenced", "backticks", "prose"}

Fenced(tag, document) == S_fence \o tag \o NL \o document \o NL \o S_fence

Wrapped(wrapping, document) ==
    CASE wrapping = "bare" -> document
      [] wrapping = "padded" -> <<" ">> \o document \o NL
      [] wrapping = "fenced" -> Fenced(<<>>, document)
      [] wrapping = "json_fenced" -> Fenced(S_json, document)
      [] wrapping = "backticks" -> S_fence \o document \o S_fence
      [] wrapping = "prose" -> S_Here \o Fenced(S_json, document)

\* What response.content can be: a wrapped document, text that is no JSON, the
\* empty text, None.
ResponseContents ==
    {Wrapped(wrapping, doc.text) : wrapping \in Wrappings, doc \in JsonDocuments}
    \cup {S_NoJson, <<>>, NoStr}

\* A validator about to ask the service.
ValidatorInit ==
    /\ pc = "invoke"
    /\ calls = <<>>
    /\ validation = None
    /\ context_validation = None
    /\ error = NoError
    /\ request \in Requests
    /\ max_attempts = 0
    /\ system_context = None
    /\ generator = "PolicyGeneratorAgent"
    /\ attempt = 0
    /\ documents = <<>>
    /\ feedback_history = <<>>
    /\ last_candidate = NoStr
    /\ generation = None
    /\ last_generation = None
    /\ last_validation = None
    /\ result = None
    /\ produced = <<>>

\* self.llm.invoke(prompt_messages) of either validator returns a response.
ServiceAnswers ==
    \E op \in {"syntax", "context"}, content \in ResponseContents :
        /\ pc = "invoke"
        /\ calls' = <<Event(op, "answered", content)>>
        /\ pc' = "parse"
        /\ UNCHANGED <<request, max_attempts, system_context, generator, attempt,
                       documents, feedback_history, last_candidate, generation,
                       validation, context_validation, last_generation,
                       last_validation, result, error, produced>>

\* validate ends: with the verdict it returns, or with the exception it raises.
ValidateEnds(op, outcome) ==
    /\ pc = "parse"
    /\ calls[1].op = op
    /\ IF outcome.raised = NoError
       THEN /\ pc' = "returned"
            /\ IF op = "syntax"
               THEN validation' = outcome.result /\ UNCHANGED context_validation
               ELSE context_validation' = outcome.result /\ UNCHANGED validation
       ELSE pc' = "raised" /\ UNCHANGED <<validation, context_validation>>
    /\ error' = outcome.raised
    /\ UNCHANGED <<request, max_attempts, system_context, generator, attempt,
                   documents, feedback_history, last_candidate, generation,
                   last_generation, last_validation, result, calls, produced>>

SyntaxVerdict ==
    /\ pc = "parse"
    /\ validate(calls[1].text).raised = NoError
    /\ ValidateEnds("syntax", validate(calls[1].text))

SyntaxVerdictRaises ==
    /\ pc = "parse"
    /\ validate(calls[1].text).raised # NoError
    /\ ValidateEnds("syntax", validate(calls[1].text))

ContextVerdict ==
    /\ pc = "parse"
    /\ context_validate(calls[1].text).raised = NoError
    /\ ValidateEnds("context", context_validate(calls[1].text))

ContextVerdictRaises ==
    /\ pc = "parse"
    /\ context_validate(calls[1].text).raised # NoError
    /\ ValidateEnds("context", context_validate(calls[1].text))

ValidatorNext ==
    \/ ServiceAnswers
    \/ SyntaxVerdict
    \/ SyntaxVerdictRaises
    \/ ContextVerdict
    \/ ContextVerdictRaises

ValidatorSpec == ValidatorInit /\ [][ValidatorNext]_vars

\* The validator that was asked.
Asked == calls[1].op

\* The text the service answered with.
Answer == calls[1].text

\* The verdict validate returned.
VerdictReturned == IF Asked = "syntax" THEN validation ELSE context_validation

\* The verdict the validator that was asked gives for a response text.
VerdictFor(content) ==
    IF Asked = "syntax" THEN validate(content).result
    ELSE context_validate(content).result

\* C19: for either validator, a JSON verdict object wrapped in a markdown fence,
\* with or without the json tag, gives the verdict, summary, feedback and fixes
\* that the object gives unwrapped.
C19_FencedParsesTheSame ==
    \A doc \in JsonDocuments, tag \in {<<>>, S_json} :
        (pc = "returned" /\ doc.is_dict /\ Answer = Fenced(tag, doc.text)) =>
            \A field \in {"verdict", "summary", "feedback", "fixes"} :
                VerdictReturned[field] = VerdictFor(doc.text)[field]

\* C20: for every response text either validator's validate returns a verdict
\* and never raises; a text that is no JSON gives the verdict invalid with the
\* text as feedback and, for the context validator, no warnings.
C20_AlwaysAVerdict ==
    /\ pc # "raised"
    /\ pc = "returned" => VerdictReturned # None
    /\ (pc = "returned" /\ Answer = S_NoJson) =>
          /\ VerdictReturned.verdict = S_invalid
          /\ VerdictReturned.feedback = S_NoJson
          /\ Asked = "context" => VerdictReturned.warnings = <<>>

\* C21: for both verdict types, is_valid is true exactly when the verdict equals
\* valid; any other verdict, one that merely begins with "valid" included, gives
\* is_valid false, and a response object without a verdict key is invalid.
C21_ValidIffEqual ==
    pc = "returned" =>
        /\ is_valid(VerdictReturned) <=> VerdictReturned.verdict = S_valid
        /\ Answer = J_NoVerdict => ~is_valid(VerdictReturned)

\* ------------- ContextValidatorAgent._format_system_context (context_validator.py)

\* The check mark and the cross of the item lines, and the apostrophe of a list
\* printed by Python. A string of this module cannot hold the first two, and the
\* apostrophe stands for the backtick; no text below holds their stand-ins.
CheckMark == "+"
CrossMark == "#"
Apostrophe == "^"

S_AVAILABLE_ITEMS ==
    <<"=", "=", "=", " ", "A", "V", "A", "I", "L", "A", "B", "L", "E", " ",
      "I", "T", "E", "M", "S", " ", "=", "=", "=">>
S_type == <<" ", "(", "t", "y", "p", "e", ":", " ">>
S_state == <<",", " ", "s", "t", "a", "t", "e", ":", " ">>
S_tags == <<",", " ", "t", "a", "g", "s", ":", " ">>
S_NULL == <<"N", "U", "L", "L">>
S_MissingItems ==
    <<"\n", " ", " ", "M", "I", "S", "S", "I", "N", "G", " ", "I", "T", "E",
      "M", "S", " ", "(", "r", "e", "f", "e", "r", "e", "n", "c", "e", "d",
      " ", "b", "u", "t", " ", "n", "o", "t", " ", "f", "o", "u", "n", "d",
      " ", "i", "n", " ", "s", "y", "s", "t", "e", "m", ")", ":">>
S_DoesNotExist ==
    <<" ", "-", " ", "D", "O", "E", "S", " ", "N", "O", "T", " ", "E", "X",
      "I", "S", "T">>
S_OtherItems ==
    <<"\n", " ", " ", "O", "t", "h", "e", "r", " ", "a", "v", "a", "i", "l",
      "a", "b", "l", "e", " ", "i", "t", "e", "m", "s", " ", "(">>
S_TotalOf == <<" ", "t", "o", "t", "a", "l", ")", ":", " ">>
S_Indent_AndMore ==
    <<" ", " ", " ", " ", ".", ".", ".", " ", "a", "n", "d", " ">>
S_NoItems ==
    <<" ", " ", "(", "N", "o", " ", "i", "t", "e", "m", "s", " ", "i", "n",
      " ", "s", "y", "s", "t", "e", "m", ")">>
S_THINGS_STATUS ==
    <<"\n", "=", "=", "=", " ", "T", "H", "I", "N", "G", "S", " ", "S", "T",
      "A", "T", "U", "S", " ", "=", "=", "=">>
S_ThingsTotal == <<" ", " ", "T", "o", "t", "a", "l", ":", " ">>
S_online == <<" ", "o", "n", "l", "i", "n", "e", ",", " ">>
S_offline == <<" ", "o", "f", "f", "l", "i", "n", "e", ")">>
S_OfflineThings ==
    <<" ", " ", "O", "f", "f", "l", "i", "n", "e", " ", "t", "h", "i", "n",
      "g", "s", ":">>
S_Dash == <<" ", " ", " ", " ", "-", " ">>
S_NoThings ==
    <<" ", " ", "(", "N", "o", " ", "t", "h", "i", "n", "g", "s", " ", "i",
      "n", " ", "s", "y", "s", "t", "e", "m", ")">>
S_EXISTING_RULES ==
    <<"\n", "=", "=", "=", " ", "E", "X", "I", "S", "T", "I", "N", "G", " ",
      "R", "U", "L", "E", "S", " ", "=", "=", "=">>
S_LiveRules ==
    <<"L", "i", "v", "e", " ", "r", "u", "l", "e", "s", " ", "i", "n", " ",
      "o", "p", "e", "n", "H", "A", "B", " ", "(">>
S_Triggers ==
    <<" ", " ", " ", " ", "T", "r", "i", "g", "g", "e", "r", "s", ":", " ">>
S_LocalRules ==
    <<"\n", "L", "o", "c", "a", "l", " ", "g", "e", "n", "e", "r", "a", "t",
      "e", "d", " ", "r", "u", "l", "e", "s", " ", "(">>
S_TriggersOn ==
    <<" ", " ", " ", " ", "T", "r", "i", "g", "g", "e", "r", "s", " ", "o",
      "n", ":", " ">>
S_ActsOn == <<" ", " ", " ", " ", "A", "c", "t", "s", " ", "o", "n", ":", " ">>
S_ONLINE == <<"O", "N", "L", "I", "N", "E">>
S_OFFLINE == <<"O", "F", "F", "L", "I", "N", "E">>
S_None == <<"N", "o", "n", "e">>
S_Switch == <<"S", "w", "i", "t", "c", "h">>
S_ON == <<"O", "N">>
S_Hall == <<"H", "a", "l", "l">>
S_uid_1 == <<"h", "u", "e", ":", "1">>
S_uid_2 == <<"h", "u", "e", ":", "2">>
S_uid_3 == <<"h", "u", "e", ":", "3">>
S_rule_1 == <<"N", "i", "g", "h", "t">>
S_rule_uid_1 == <<"r", "1">>
S_rule_uid_2 == <<"r", "2">>
S_ItemStateChange ==
    <<"I", "t", "e", "m", "S", "t", "a", "t", "e", "C", "h", "a", "n", "g",
      "e", "T", "r", "i", "g", "g", "e", "r">>
S_NoConfiguration == <<"{", "}">>

\* A value printed by an f-string: None prints as None.
Str(x) == IF x = NoStr THEN S_None ELSE x

\* x or default, on strings
Or(x, default) == IF x \in {NoStr, <<>>} THEN default ELSE x

\* A list of strings printed by an f-string.
ReprList(strings) ==
    <<"[">>
    \o Join([i \in 1..Len(strings) |-> <<Apostrophe>> \o strings[i] \o <<Apostrophe>>],
            <<",", " ">>)
    \o <<"]">>

RECURSIVE Flatten(_)
\* The lines of several groups of lines, in order.
Flatten(groups) ==
    IF groups = <<>> THEN <<>> ELSE Head(groups) \o Flatten(Tail(groups))

\* The ways a set can be iterated: Python does not fix the order of a set or of
\* list(set(...)).
Orders(names) ==
    {order \in [1..Cardinality(names) -> names] :
        \A i, j \in 1..Cardinality(names) : i # j => order[i] # order[j]}

\* SystemContext.get_item
get_item(context, name) ==
    LET found == {i \in 1..Len(context.items) : context.items[i].name = name}
    IN IF found = {} THEN None ELSE context.items[Least(found)]

\* context_validator.py:157-158: the names the candidate refers to, as a set
referenced_items_of(candidate_code) ==
    LET parsed_candidate == parse_rule(candidate_code)
    IN IF parsed_candidate = None THEN {} ELSE BagToSet(parsed_candidate.all_items)

\* context_validator.py:176, set(referenced_items) - {i.name for i in referenced_found}
missing_of(context, referenced_items) ==
    {name \in referenced_items : get_item(context, name) = None}

\* context_validator.py:160-189, the lines of the items section; referenced_items
\* and missing are the orders in which the list and the set are iterated.
items_section(context, referenced_items, missing) ==
    LET referenced_found ==
            SelectSeq(referenced_items, LAMBDA name : get_item(context, name) # None)
        found_line(name) ==
            LET item == get_item(context, name)
            IN <<" ", " ", CheckMark, " ">> \o item.name \o S_type \o Str(item.type)
               \o S_state \o Or(item.state, S_NULL) \o S_tags \o ReprList(item.tags)
               \o <<")">>
        other_items ==
            SelectSeq(context.items,
                      LAMBDA item : \A i \in 1..Len(referenced_items) :
                                        referenced_items[i] # item.name)
    IN <<S_AVAILABLE_ITEMS>>
       \o (IF context.items # <<>>
           THEN [i \in 1..Len(referenced_found) |-> found_line(referenced_found[i])]
                \o (IF Len(referenced_found) < Len(referenced_items)
                    THEN <<S_MissingItems>>
                         \o [i \in 1..Len(missing) |->
                               <<" ", " ", " ", " ", CrossMark, " ">> \o missing[i]
                               \o S_DoesNotExist]
                    ELSE <<>>)
                \o (IF other_items # <<>>
                    THEN << S_OtherItems \o IntToStr(Len(other_items)) \o S_TotalOf
                            \o Join([i \in 1..Min(20, Len(other_items)) |->
                                        other_items[i].name],
                                    <<",", " ">>) >>
                         \o (IF Len(other_items) > 20
                             THEN << S_Indent_AndMore
                                     \o IntToStr(Len(other_items) - 20)
                                     \o S_AndMore_2 >>
                             ELSE <<>>)
                    ELSE <<>>)
           ELSE <<S_NoItems>>)

\* context_validator.py:191-205, the lines of the things section
things_section(context) ==
    LET things == context.things
        online_count ==
            Cardinality({i \in 1..Len(things) :
                            /\ things[i].statusInfo # None
                            /\ things[i].statusInfo.status = S_ONLINE})
        offline ==
            SelectSeq(things, LAMBDA t : IF t.statusInfo = None THEN FALSE
                                         ELSE t.statusInfo.status # S_ONLINE)
    IN <<S_THINGS_STATUS>>
       \o (IF things # <<>>
           THEN << S_ThingsTotal \o IntToStr(Len(things)) \o <<" ", "(">>
                   \o IntToStr(online_count) \o S_online
                   \o IntToStr(Len(things) - online_count) \o S_offline >>
                \o (IF offline # <<>>
                    THEN <<S_OfflineThings>>
                         \o [i \in 1..Min(10, Len(offline)) |->
                               S_Dash \o offline[i].UID \o <<" ", "(">>
                               \o offline[i].statusInfo.status \o <<")">>]
                    ELSE <<>>)
           ELSE <<S_NoThings>>)

\* context_validator.py:207-231, the lines of the rules section
rules_section(context) ==
    LET live == context.live_rules
        local == context.local_rules
        trigger(t) == t.type \o <<"(">> \o t.configuration \o <<")">>
        live_lines(rule) ==
            << <<" ", " ", "-", " ">> \o Str(Or(rule.name, rule.uid)) >>
            \o (IF rule.triggers # <<>>
                THEN << S_Triggers
                        \o Join([k \in 1..Min(2, Len(rule.triggers)) |->
                                    trigger(rule.triggers[k])],
                                <<",", " ">>) >>
                ELSE <<>>)
        local_lines(rule) ==
            << <<" ", " ", "-", " ">> \o rule.name >>
            \o (IF rule.trigger_items # <<>>
                THEN <<S_TriggersOn \o Join(rule.trigger_items, <<",", " ">>)>>
                ELSE <<>>)
            \o (IF rule.action_items # <<>>
                THEN <<S_ActsOn \o Join(rule.action_items, <<",", " ">>)>>
                ELSE <<>>)
    IN <<S_EXISTING_RULES>>
       \o (IF live # <<>>
           THEN << S_LiveRules \o IntToStr(Len(live)) \o <<")", ":">> >>
                \o Flatten([i \in 1..Min(10, Len(live)) |-> live_lines(live[i])])
                \o (IF Len(live) > 10
                    THEN <<S_Indent_AndMore \o IntToStr(Len(live) - 10) \o S_AndMore_2>>
                    ELSE <<>>)
           ELSE <<>>)
       \o (IF local # <<>>
           THEN << S_LocalRules \o IntToStr(Len(local)) \o <<")", ":">> >>
                \o Flatten([i \in 1..Len(local) |-> local_lines(local[i])])
           ELSE <<>>)

\* ContextValidatorAgent._format_system_context, from the parsed candidate on
context_format_system_context(context, referenced_items, missing) ==
    Join(items_section(context, referenced_items, missing)
         \o things_section(context) \o rules_section(context),
         NL)

S_Fan == <<"F", "a", "n">>

\* ------------------------------- the context block, call by call

\* The snapshots handed to the context validator: an empty system; a home with
\* the items the candidate texts name, things online, offline and without a
\* status, a live rule with a trigger, one without a name, and a local rule; a
\* system that holds none of the items the candidates name; a system that holds
\* an item named ON.
LiveSnapshots ==
    { [items |-> <<>>, things |-> <<>>, live_rules |-> <<>>, local_rules |-> <<>>],
      [items |-> << [name |-> S_Motion_Sensor, type |-> S_Switch, state |-> S_ON,
                     tags |-> <<>>],
                    [name |-> S_Light, type |-> NoStr, state |-> NoStr,
                     tags |-> <<S_Hall>>],
                    [name |-> S_Fan, type |-> S_Switch, state |-> <<>>,
                     tags |-> <<>>] >>,
       things |-> << [UID |-> S_uid_1, statusInfo |-> [status |-> S_ONLINE]],
                     [UID |-> S_uid_2, statusInfo |-> [status |-> S_OFFLINE]],
                     [UID |-> S_uid_3, statusInfo |-> None] >>,
       live_rules |-> << [name |-> S_rule_1, uid |-> S_rule_uid_1,
                          triggers |-> << [type |-> S_ItemStateChange,
                                           configuration |-> S_NoConfiguration] >>],
                         [name |-> NoStr, uid |-> S_rule_uid_2, triggers |-> <<>>] >>,
       local_rules |-> << [name |-> N_LampOn,
                           trigger_items |-> <<S_Motion_Sensor>>,
                           action_items |-> <<S_ON>>],
                          [name |-> N_LampOff, trigger_items |-> <<>>,
                           action_items |-> <<>>] >>],
      [items |-> << [name |-> S_Fan, type |-> S_Switch, state |-> S_ON,
                     tags |-> <<>>] >>,
       things |-> <<>>, live_rules |-> <<>>, local_rules |-> <<>>],
      [items |-> << [name |-> S_Light, type |-> S_Switch, state |-> S_ON,
                     tags |-> <<>>],
                    [name |-> S_ON, type |-> S_Switch, state |-> NoStr,
                     tags |-> <<>>] >>,
       things |-> << [UID |-> S_uid_2, statusInfo |-> [status |-> S_OFFLINE]] >>,
       live_rules |-> << [name |-> <<>>, uid |-> S_rule_uid_1, triggers |-> <<>>] >>,
       local_rules |-> << [name |-> N_LampOff, trigger_items |-> <<S_Light>>,
                           action_items |-> <<S_Light, S_ON>>] >>] }

\* A ContextValidatorAgent about to format the snapshot for a candidate; result
\* is the call with the names it looked up and the text it returned.
FormatInit ==
    /\ system_context \in LiveSnapshots
    /\ generation \in {[openhab_code |-> text] : text \in CandidateTexts \ {NoStr}}
    /\ result = [op |-> "ContextValidatorAgent"]
    /\ pc = "format"
    /\ error = NoError
    /\ request \in Requests
    /\ max_attempts = 0
    /\ generator = "PolicyGeneratorAgent"
    /\ attempt = 0
    /\ documents = <<>>
    /\ feedback_history = <<>>
    /\ last_candidate = NoStr
    /\ validation = None
    /\ context_validation = None
    /\ last_generation = None
    /\ last_validation = None
    /\ calls = <<>>
    /\ produced = <<>>

\* ContextValidatorAgent._format_system_context(system_context, candidate_code)
FormatSystemContext ==
    /\ pc = "format"
    /\ \E referenced_items \in Orders(referenced_items_of(generation.openhab_code)) :
          \E missing \in Orders(missing_of(system_context,
                                           referenced_items_of(generation.openhab_code))) :
              result' = [op |-> "_format_system_context",
                         referenced_items |-> referenced_items,
                         value |-> context_format_system_context(
                                       system_context, referenced_items, missing)]
    /\ pc' = "returned"
    /\ UNCHANGED <<request, max_attempts, system_context, generator, attempt,
                   documents, feedback_history, last_candidate, generation,
                   validation, context_validation, last_generation, last_validation,
                   error, calls, produced>>

FormatNext == FormatSystemContext

FormatSpec == FormatInit /\ [][FormatNext]_vars

\* The context block was built.
Formatted == pc = "returned" /\ result.op = "_format_system_context"

\* The lines of the context block.
BlockLines ==
    LET lines == SplitAt(result.value, "\n", 1)
    IN {lines[i] : i \in 1..Len(lines)}

\* The names the context validator looked up in the snapshot.
Referenced == {result.referenced_items[i] : i \in 1..Len(result.referenced_items)}

\* The context block lists the name as missing.
ListedMissing(name) ==
    (<<" ", " ", " ", " ", CrossMark, " ">> \o name \o S_DoesNotExist) \in BlockLines

\* The context block lists the name as found, with its details.
ListedFound(name) ==
    \E line \in BlockLines :
        StartsWith(line, <<" ", " ", CheckMark, " ">> \o name \o S_type)

\* C22: every name the candidate refers to that is not among the items of the
\* snapshot is listed as missing in the context block, for every snapshot, one
\* without items included, and no name that is among the items is listed as
\* missing.
C22_MissingAreListed ==
    Formatted =>
        \A name \in Referenced :
            ListedMissing(name) <=> get_item(system_context, name) = None

\* C29: for a candidate of several rules, the names the context validator looks up
\* in the snapshot, and reports as found or missing when the snapshot has items,
\* hold the trigger and action references of every rule, not only of the first.
C29_EveryRuleIsChecked ==
    Formatted =>
        \A rules \in RuleLists, fenced \in BOOLEAN :
            generation.openhab_code = RulesText(rules, fenced) =>
                \A i \in 1..Len(rules) :
                    \A name \in referenced_items_of(Block(rules[i])) :
                        /\ name \in Referenced
                        /\ system_context.items # <<>> =>
                              ListedFound(name) \/ ListedMissing(name)

\* ------------------------------------- the loop: what an attempt is given

\* C26: whenever the loop returns is_valid = FALSE, the returned validation is the
\* rejecting syntax verdict of the last attempt that ran, or absent; it is never
\* the verdict of an earlier attempt and never a passing verdict.
C26_FailureShowsTheLastVerdict ==
    (pc = "returned" /\ ~result.is_valid) =>
        \/ result.validation = None
        \/ /\ ~is_valid(result.validation)
           /\ result.validation = validation
           /\ calls[Len(calls)].op = "syntax"
           /\ calls[Len(calls)].attempt = max_attempts
           /\ calls[Len(calls)].outcome = "invalid"
           /\ calls[Len(calls)].text = as_feedback_entry(result.validation)

C26_Witness ==
    /\ pc = "returned"
    /\ ~result.is_valid
    /\ max_attempts = 3
    /\ \E i \in CallsOf("syntax", 1) :
          calls[i].outcome = "invalid" /\ calls[i].text # calls[Len(calls)].text
    /\ \E i \in CallsOf("context", 2) : calls[i].outcome = "invalid"

S_syntax_validator ==
    <<"s", "y", "n", "t", "a", "x", "_", "v", "a", "l", "i", "d", "a", "t",
      "o", "r">>
S_context_validator ==
    <<"c", "o", "n", "t", "e", "x", "t", "_", "v", "a", "l", "i", "d", "a",
      "t", "o", "r">>
S_attempt == <<" ", "a", "t", "t", "e", "m", "p", "t", " ">>

\* main.py:112 and 131, f"syntax_validator attempt {attempt}" as text
SourceText(source) ==
    (IF source.stage = "syntax_validator" THEN S_syntax_validator
     ELSE S_context_validator)
    \o S_attempt \o IntToStr(source.attempt)

\* main.py:100, prompt_builder.generator_variables() as the loop calls it
LoopGeneratorVariables ==
    generator_variables(request, documents,
                        [i \in 1..Len(feedback_history) |->
                            [source |-> SourceText(feedback_history[i].source),
                             message |-> feedback_history[i].message]],
                        last_candidate, system_context)

\* The numbered item that feeds a rejecting verdict back, its text as given.
VerdictItem(k, e) ==
    IntToStr(k) \o <<".", " ", "(">> \o SourceText(SourceOf(e)) \o <<")", " ">>
    \o Strip(e.text)

\* The feedback variable that carries the given rejecting verdicts.
FeedbackOf(verdicts) ==
    IF verdicts = <<>> THEN S_NoFeedback
    ELSE Join([k \in 1..Len(verdicts) |-> VerdictItem(k, verdicts[k])], NL)

\* C27 as the spec states it: at attempt 1 the generator is given the feedback
\* "None." and the fresh-generation sentinel as prior_code; at attempt n > 1 it is
\* given the feedback entries of all failed attempts 1..n-1 in attempt order and
\* the candidate of attempt n-1 as prior_code; the candidate is recorded before
\* its validation runs.
C27_AllFailuresAndTheCandidate ==
    /\ (pc = "generate" /\ attempt = 1) =>
          /\ LoopGeneratorVariables["feedback"] = S_NoFeedback
          /\ LoopGeneratorVariables["prior_code"] = S_NoPriorCode
    /\ (pc = "generate" /\ attempt > 1) =>
          /\ Len(FailedVerdicts) = attempt - 1
          /\ \A k \in 1..Len(FailedVerdicts) : FailedVerdicts[k].attempt = k
          /\ LoopGeneratorVariables["feedback"] = FeedbackOf(FailedVerdicts)
          /\ LoopGeneratorVariables["prior_code"] = produced[attempt - 1]
    /\ pc \in {"syntax", "context"} => last_candidate = produced[attempt]

\* C27: at attempt 1 the generator is given the feedback "None." and the
\* fresh-generation sentinel as prior_code; at attempt n > 1 it is given, in
\* attempt order, the feedback entries of the failed attempts 1..n-1 whose
\* feedback text is not blank ("None." if there is none) and as prior_code the
\* candidate of attempt n-1, or the sentinel when that candidate is empty; the
\* candidate is recorded before its validation runs.
C27_NonBlankFailuresAndTheCandidate ==
    /\ (pc = "generate" /\ attempt = 1) =>
          /\ LoopGeneratorVariables["feedback"] = S_NoFeedback
          /\ LoopGeneratorVariables["prior_code"] = S_NoPriorCode
    /\ (pc = "generate" /\ attempt > 1) =>
          /\ Len(FailedVerdicts) = attempt - 1
          /\ \A k \in 1..Len(FailedVerdicts) : FailedVerdicts[k].attempt = k
          /\ LoopGeneratorVariables["feedback"] = FeedbackOf(RecordedVerdicts)
          /\ LoopGeneratorVariables["prior_code"] =
                 IF produced[attempt - 1] = <<>> THEN S_NoPriorCode
                 ELSE produced[attempt - 1]
    /\ pc \in {"syntax", "context"} => last_candidate = produced[attempt]

C27_Witness ==
    /\ pc = "generate"
    /\ attempt = 3
    /\ Len(RecordedVerdicts) = 2
    /\ RecordedVerdicts[1].op = "syntax"
    /\ RecordedVerdicts[2].op = "context"
    /\ produced[2] # <<>>

\* C28: the variables generator_variables() returns are accepted by the
\* generator's generate as the loop passes them: with max_attempts >= 1 and no
\* failure of a service, the generate call of attempt 1 completes and yields a
\* candidate.
C28_AttemptOneGenerates ==
    /\ Binds(GenerateParams(generator), DOMAIN LoopGeneratorVariables)
    /\ (max_attempts >= 1 /\ pc \notin {"retrieve", "generate"}
        /\ error # "ServiceError") =>
          /\ error # "TypeError"
          /\ Len(produced) >= 1
          /\ CallsOf("generate", 1) # {}
          /\ \A i \in CallsOf("generate", 1) : calls[i].outcome = "ok"

\* --------------------------- SystemContextFetcher (context_fetcher.py)

\* The lists the platform and the rules directory hold.
ItemLists == {snapshot.items : snapshot \in LiveSnapshots}
ThingLists == {snapshot.things : snapshot \in LiveSnapshots}
LiveRuleLists == {snapshot.live_rules : snapshot \in LiveSnapshots}
LocalRuleLists == {snapshot.local_rules : snapshot \in LiveSnapshots}

\* What session.call_tool can come back with for a listing: an error result, a
\* result without JSON content, a JSON object without the key of the listing, a
\* list with an entry that model_validate rejects, and the list itself, bare or
\* under its key.
ToolAnswers(lists) ==
    { [isError |-> TRUE, json |-> FALSE, shape |-> "none", data |-> <<>>],
      [isError |-> FALSE, json |-> FALSE, shape |-> "none", data |-> <<>>],
      [isError |-> FALSE, json |-> TRUE, shape |-> "other_dict", data |-> <<>>],
      [isError |-> FALSE, json |-> TRUE, shape |-> "malformed", data |-> <<>>] }
    \cup { [isError |-> FALSE, json |-> TRUE, shape |-> shape, data |-> data] :
              shape \in {"dict", "list"}, data \in lists }

\* SystemContextFetcher._call_tool_json: the exception it raises, none if it
\* returns the JSON content.
call_tool_json(answer) ==
    IF answer.isError \/ ~answer.json THEN "RuntimeError" ELSE NoError

\* context_fetcher.py:155-161, 165-171 and 176-181: a listing from the call of
\* the tool to the validated models, with the exception raised on the way. An
\* object without the key is an empty listing of items or things, and for rules
\* the object itself, whose keys are no rules.
listed(tool, answer) ==
    IF call_tool_json(answer) # NoError
    THEN [raised |-> call_tool_json(answer), value |-> <<>>]
    ELSE IF answer.shape = "malformed"
    THEN [raised |-> "ValidationError", value |-> <<>>]
    ELSE IF answer.shape = "other_dict"
    THEN [raised |-> IF tool = "list_rules" THEN "ValidationError" ELSE NoError,
          value |-> <<>>]
    ELSE [raised |-> NoError, value |-> answer.data]

tolerated_never(tool) == FALSE

\* context_fetcher.py:175-185: the try around the listing of the rules
tolerated(tool) == tool = "list_rules"

\* The local variable a listing is assigned to.
LocalOf(tool) ==
    CASE tool = "list_items" -> "items"
      [] tool = "list_things" -> "things"
      [] tool = "list_rules" -> "live_rules"

\* A SystemContextFetcher whose session is initialized; result holds the local
\* variables of _fetch_all_async.
FetchInit ==
    /\ pc = "list_items"
    /\ result = [op |-> "_fetch_all_async", items |-> <<>>, things |-> <<>>,
                 live_rules |-> <<>>]
    /\ system_context = None
    /\ calls = <<>>
    /\ error = NoError
    /\ request \in Requests
    /\ max_attempts = 0
    /\ generator = "PolicyGeneratorAgent"
    /\ attempt = 0
    /\ documents = <<>>
    /\ feedback_history = <<>>
    /\ last_candidate = NoStr
    /\ generation = None
    /\ validation = None
    /\ context_validation = None
    /\ last_generation = None
    /\ last_validation = None
    /\ produced = <<>>

\* One listing of _fetch_all_async: the call of the tool, the validation of what
\* it gave, and the exception leaving the fetch unless the listing is tolerated.
CallTool(tool, lists, next) ==
    /\ pc = tool
    /\ \E answer \in ToolAnswers(lists) :
          LET outcome == listed(tool, answer)
          IN /\ calls' = Append(calls,
                    Event(tool,
                          IF outcome.raised = NoError THEN "ok" ELSE outcome.raised,
                          outcome.value))
             /\ IF outcome.raised # NoError /\ ~tolerated(tool)
                THEN /\ pc' = "raised"
                     /\ error' = outcome.raised
                     /\ UNCHANGED result
                ELSE /\ pc' = next
                     /\ result' = [result EXCEPT ![LocalOf(tool)] = outcome.value]
                     /\ UNCHANGED error
    /\ UNCHANGED <<request, max_attempts, system_context, generator, attempt,
                   documents, feedback_history, last_candidate, generation,
                   validation, context_validation, last_generation, last_validation,
                   produced>>

\* context_fetcher.py:154-162
ListItems == CallTool("list_items", ItemLists, "list_things")

\* context_fetcher.py:164-172
ListThings == CallTool("list_things", ThingLists, "list_rules")

\* context_fetcher.py:174-185
ListRules == CallTool("list_rules", LiveRuleLists, "local_rules")

\* context_fetcher.py:224-233: the local rules are loaded and the snapshot is
\* returned.
LoadLocalRules ==
    /\ pc = "local_rules"
    /\ \E local_rules \in LocalRuleLists :
          /\ system_context' = [items |-> result.items, things |-> result.things,
                                live_rules |-> result.live_rules,
                                local_rules |-> local_rules]
          /\ calls' = Append(calls, Event("load_local_rules", "ok", local_rules))
    /\ pc' = "returned"
    /\ UNCHANGED <<request, max_attempts, generator, attempt, documents,
                   feedback_history, last_candidate, generation, validation,
                   context_validation, last_generation, last_validation, result,
                   error, produced>>

FetchNext ==
    \/ ListItems
    \/ ListThings
    \/ ListRules
    \/ LoadLocalRules

FetchSpec == FetchInit /\ [][FetchNext]_vars

\* The positions of the calls of a tool.
ToolCalls(tool) == {i \in 1..Len(calls) : calls[i].op = tool}

\* C25: when the listing of the rules fails while the listings of the items and
\* of the things succeed, the fetch goes on and returns a snapshot that holds the
\* fetched items and things, no live rules, and the local rules; a failure of the
\* listing of the items or of the things ends the fetch with the exception, no
\* further call made and no snapshot returned.
C25_RuleListingFailureTolerated ==
    /\ \A i \in ToolCalls("list_rules") : error = NoError
    /\ \A i \in ToolCalls("list_items") \cup ToolCalls("list_things") :
          calls[i].outcome # "ok" =>
              /\ pc = "raised"
              /\ error = calls[i].outcome
              /\ i = Len(calls)
              /\ system_context = None
    /\ pc = "returned" =>
          /\ Len(calls) = 4
          /\ calls[1].outcome = "ok" /\ calls[2].outcome = "ok"
          /\ system_context.items = calls[1].text
          /\ system_context.things = calls[2].text
          /\ system_context.live_rules =
                 IF calls[3].outcome = "ok" THEN calls[3].text ELSE <<>>
          /\ system_context.local_rules = calls[4].text

C25_Witness ==
    /\ pc = "returned"
    /\ calls[3].outcome = "RuntimeError"
    /\ system_context.items # <<>>
    /\ system_context.things # <<>>
    /\ system_context.live_rules = <<>>
    /\ system_context.local_rules # <<>>

\* ------------------------------------------------- the callers of the loop

\* What SystemContextFetcher().fetch_all() does for a caller: it returns a
\* snapshot, or raises.
FetchOutcomes ==
    {[raised |-> "RuntimeError", value |-> None]}
    \cup {[raised |-> NoError, value |-> sc] : sc \in SystemContexts}

\* The callers that fetch the snapshot before they run the loop: main, and
\* fetch_system_context of run_initial_pipeline.py and of
\* run_initial_syntax_only_pipeline.py.
Callers == {"main", "fetch_system_context"}

fetch_failure_caught_nowhere(caller) == FALSE

\* main.py:210 and run_initial_pipeline.py:50, except Exception around fetch_all
fetch_failure_caught(caller) == caller \in Callers

\* The state of a caller before it fetches: nothing of the loop has run.
BeforeFetch(caller, most) ==
    /\ pc = caller
    /\ request \in Requests
    /\ max_attempts \in 0..most
    /\ generator \in Generators
    /\ system_context = None
    /\ attempt = 0
    /\ documents = <<>>
    /\ feedback_history = <<>>
    /\ last_candidate = NoStr
    /\ generation = None
    /\ validation = None
    /\ context_validation = None
    /\ last_generation = None
    /\ last_validation = None
    /\ result = None
    /\ error = NoError
    /\ calls = <<>>
    /\ produced = <<>>

\* main.py:199-213 and fetch_system_context: the one fetch of a run, skipped when
\* context validation is disabled. The first entry of calls names the caller and
\* how its fetch ended.
FetchContext(enabled) ==
    /\ pc \in Callers
    /\ IF ~enabled
       THEN /\ calls' = Append(calls, Call(pc, "disabled"))
            /\ pc' = "retrieve"
            /\ UNCHANGED <<system_context, error>>
       ELSE \E outcome \in FetchOutcomes :
               IF outcome.raised = NoError
               THEN /\ system_context' = outcome.value
                    /\ calls' = Append(calls, Call(pc, "fetched"))
                    /\ pc' = "retrieve"
                    /\ UNCHANGED error
               ELSE /\ calls' = Append(calls, Call(pc, "fetch failed"))
                    /\ UNCHANGED system_context
                    /\ IF fetch_failure_caught(pc)
                       THEN pc' = "retrieve" /\ UNCHANGED error
                       ELSE pc' = "raised" /\ error' = outcome.raised
    /\ UNCHANGED <<request, max_attempts, generator, attempt, documents,
                   feedback_history, last_candidate, generation, validation,
                   context_validation, last_generation, last_validation, result,
                   produced>>

\* main.py:199-213
MainFetches ==
    /\ pc = "main"
    /\ \E enable_context \in BOOLEAN, no_context_validation \in BOOLEAN :
          FetchContext(enable_context /\ ~no_context_validation)

\* run_initial_pipeline.py:33-53
PipelineFetches ==
    /\ pc = "fetch_system_context"
    /\ \E enable_context \in BOOLEAN : FetchContext(enable_context)

\* The caller whose run this is.
Caller == IF calls = <<>> THEN pc ELSE calls[1].op

\* A caller starts, with GENERATION_MAX_ATTEMPTS or --max-attempts.
CallerInit == \E caller \in Callers : BeforeFetch(caller, MaxAttempts)

\* A caller up to the return of the loop.
CallerNext ==
    \/ MainFetches
    \/ PipelineFetches
    \/ Next

CallerSpec == CallerInit /\ [][CallerNext]_vars

\* The characters str.isalnum accepts, on ASCII text.
Alnum == WordChars \ {"_"}

\* The elements of s at the positions in keep, in order.
Pick(s, keep) ==
    [k \in 1..Cardinality(keep) |->
        s[CHOOSE i \in keep : Cardinality({j \in keep : j < i}) = k - 1]]

\* The value of an expression computed once: the member of a set of one.
The(values) == CHOOSE v \in values : TRUE

\* main.py:25-26, quotes removed, then what is not alphanumeric, a space, _ or -
\* becomes _
SafeName(name) ==
    The({ [i \in 1..Len(unquoted) |->
              IF unquoted[i] \in Alnum \cup {" ", "_", "-"} THEN unquoted[i] ELSE "_"]
          : unquoted \in {SelectSeq(name, LAMBDA c : c \notin {"\"", Apostrophe})} })

\* main.py:29-30, runs of underscores become one
CollapseUnderscores(safe_name) ==
    Pick(safe_name, {i \in 1..Len(safe_name) :
                        ~(safe_name[i] = "_" /\ i > 1 /\ safe_name[i - 1] = "_")})

\* str.strip('_')
StripUnderscores(safe_name) ==
    LET inner == {i \in 1..Len(safe_name) : safe_name[i] # "_"}
    IN IF inner = {} THEN <<>>
       ELSE SubSeq(safe_name, CHOOSE i \in inner : \A j \in inner : i <= j,
                              CHOOSE i \in inner : \A j \in inner : j <= i)

\* sanitize_filename
sanitize_filename(name) ==
    The({ StripUnderscores(single) :
          single \in { CollapseUnderscores(lowered) :
                       lowered \in { Lower([i \in 1..Len(safe) |->
                                               IF safe[i] = " " THEN "_" ELSE safe[i]]) :
                                     safe \in {SafeName(name)} } } })

S_DotRules == <<".", "r", "u", "l", "e", "s">>
S_generated == <<"g", "e", "n", "e", "r", "a", "t", "e", "d">>
S_rule_ == <<"r", "u", "l", "e", "_">>
S_out == <<"o", "u", "t">>

\* Path(args.out).stem, or None without --out
Prefixes == {NoStr, S_out}

\* main.py:42-65, the files written for the rules parsed from code
FilesOf(rules, code, prefix) ==
    IF rules = <<>>
    THEN << [filename |-> (IF prefix # NoStr THEN prefix ELSE S_generated)
                          \o S_DotRules,
             code |-> code] >>
    ELSE [i \in 1..Len(rules) |->
             [filename |->
                  (IF prefix # NoStr THEN prefix \o <<"_">> ELSE <<>>)
                  \o The({ IF base_name = <<>> THEN S_rule_ \o IntToStr(i) ELSE base_name
                           : base_name \in {sanitize_filename(rules[i].name)} })
                  \o S_DotRules,
              code |-> rules[i].raw_text]]

\* save_rules_individually: the files it writes, in order, each with its name and
\* its content.
save_rules_individually(code, prefix) ==
    The({ FilesOf(rules, code, prefix) : rules \in {parse_rules_text(code)} })

\* Path(path).stem of a path that ends in .rules
Stem(path) == SubSeq(path, 1, Len(path) - Len(S_DotRules))

\* The entries of calls for the files saved, in order.
Saved == SelectSeq(calls, LAMBDA c : c.op = "save")

\* The entries of calls for the rules sent to the deployment endpoint.
Deployed == SelectSeq(calls, LAMBDA c : c.op = "deploy")

\* main.py:222-231, the code of the returned generation is saved
MainSaves ==
    /\ pc = "returned"
    /\ \E prefix \in Prefixes :
          \E files \in {save_rules_individually(result.generation.openhab_code, prefix)} :
             calls' = calls \o [i \in 1..Len(files) |->
                                   Event("save", files[i].filename, files[i].code)]
    /\ pc' = "saved"
    /\ UNCHANGED <<request, max_attempts, system_context, generator, attempt, documents,
                   feedback_history, last_candidate, generation, validation,
                   context_validation, last_generation, last_validation, result,
                   error, produced>>

deployment_allowed_always(approved) == TRUE

\* main.py:234, if is_valid
deployment_allowed(approved) == approved

\* zip(rules, saved_paths)
Zip(rules, saved_paths) ==
    [i \in 1..(IF Len(rules) < Len(saved_paths) THEN Len(rules) ELSE Len(saved_paths))
        |-> [rule |-> rules[i], path |-> saved_paths[i]]]

\* main.py:234-239 with maybe_deploy_via_mcp: each rule of the approved code goes
\* to the endpoint under the name of its file, when OPENHAB_MCP_URL is set.
MainDeploys ==
    /\ pc = "saved"
    /\ deployment_allowed(result.is_valid)
    /\ \E rules \in {parse_rules_text(result.generation.openhab_code)} :
       \E pairs \in {Zip(rules, [i \in 1..Len(Saved) |-> Saved[i].outcome])} :
       \E mcp_url \in BOOLEAN :
          calls' = IF mcp_url
                   THEN calls \o [i \in 1..Len(pairs) |->
                                     Event("deploy", Stem(pairs[i].path),
                                           pairs[i].rule.raw_text)]
                   ELSE calls
    /\ pc' = "done"
    /\ UNCHANGED <<request, max_attempts, system_context, generator, attempt, documents,
                   feedback_history, last_candidate, generation, validation,
                   context_validation, last_generation, last_validation, result,
                   error, produced>>

\* main.py:240-241, Skipping MCP deployment
MainSkipsDeployment ==
    /\ pc = "saved"
    /\ ~deployment_allowed(result.is_valid)
    /\ pc' = "done"
    /\ UNCHANGED <<request, max_attempts, system_context, generator, attempt, documents,
                   feedback_history, last_candidate, generation, validation,
                   context_validation, last_generation, last_validation, result,
                   error, calls, produced>>

\* The most attempts main is asked for with --max-attempts.
MaxAttemptsAsked == 1

\* main.py:172-197, main starts
MainInit == BeforeFetch("main", MaxAttemptsAsked)

MainNext ==
    \/ MainFetches
    \/ Next
    \/ MainSaves
    \/ MainDeploys
    \/ MainSkipsDeployment

MainSpec == MainInit /\ [][MainNext]_vars

\* The loop of this run has been entered.
InLoop == calls # <<>> /\ ~(pc = "raised" /\ Len(calls) = 1)

\* The calls a caller makes to fetch the snapshot.
Fetches == {i \in 1..Len(calls) : calls[i].op \in Callers}

\* C23: the snapshot passed to run_generation_loop stays the same, unchanged,
\* through every attempt: no step of the loop (set_system_context, the building
\* of the variables, the context validator) changes its items, things, live_rules
\* or local_rules, and the only fetch of a run is the caller's, before the loop.
C23_SnapshotIsShared ==
    [][/\ calls # <<>> => system_context' = system_context
       /\ Fetches' \subseteq {1}]_vars

C23_Witness ==
    /\ Caller = "main"
    /\ calls # <<>> /\ calls[1].outcome = "fetched"
    /\ system_context \in SystemContexts
    /\ attempt = 2
    /\ CallsOf("context", 1) # {}
    /\ CallsOf("context", 2) # {}

\* The fetch of this run raised.
FetchFailed == calls # <<>> /\ calls[1].outcome = "fetch failed"

\* C24: when the fetch of the snapshot fails in main or in fetch_system_context,
\* the failure is caught and the loop runs without a snapshot: the run goes on
\* into the loop, only the syntax validator is called, never the context
\* validator.
C24_FetchFailureDegrades ==
    FetchFailed =>
        /\ system_context = None
        /\ InLoop
        /\ pc # "context"
        /\ \A i \in 1..Len(calls) : calls[i].op # "context"

C24_Witness ==
    /\ FetchFailed
    /\ Caller = "fetch_system_context"
    /\ pc = "returned"
    /\ result.is_valid
    /\ CallsOf("syntax", 1) # {}
    /\ CallsOf("syntax", 2) # {}

\* C30: main sends rules to the deployment endpoint only after the loop returned
\* is_valid = true; after is_valid = false nothing is sent, and in both cases the
\* returned code has been saved: file by file the rules parsed from it, or the
\* code itself in one file when no rule parses.
C30_DeployOnlyWhenValid ==
    /\ Deployed # <<>> => pc = "done" /\ result.is_valid
    /\ pc \in {"saved", "done"} =>
          \A code \in {result.generation.openhab_code} :
          \A rules \in {parse_rules_text(code)} :
             /\ Saved # <<>>
             /\ IF rules = <<>>
                THEN Len(Saved) = 1 /\ Saved[1].text = code
                ELSE /\ Len(Saved) = Len(rules)
                     /\ \A i \in 1..Len(rules) : Saved[i].text = rules[i].raw_text
             /\ ~result.is_valid => Deployed = <<>>

C30_Witness ==
    /\ pc = "done"
    /\ ~result.is_valid
    /\ Len(Saved) = 2
    /\ Deployed = <<>>

====
